---- MODULE Spec2Model ----
(***************************************************************************)
(* Model of the recommendation-job manager of musicatlas                   *)
(* (src/app/routers/recs.py): the in-memory job registry, the background   *)
(* task run_recs_job, and the endpoints create_recs_job,                   *)
(* get_recs_job_status and get_recs_job_result.                            *)
(*                                                                         *)
(* Endpoints and background tasks are plain (non-async) functions, so the  *)
(* framework runs them on worker threads: they interleave at every access  *)
(* of shared state.  JOB_LOCK serialises the blocks written under          *)
(* "with JOB_LOCK"; reads of a Job object's attributes made after          *)
(* _get_job has returned are NOT under the lock, so each attribute write   *)
(* inside a locked block of the task is a step of its own.                 *)
(*                                                                         *)
(* Optional values (None or a value) are encoded as <<>> / <<value>>.      *)
(* Time is counted in minutes.                                             *)
(***************************************************************************)
EXTENDS Integers, Sequences, FiniteSets, TLC

\* ------------------------------------------------------------------ bounds
MaxArtists == 1
MaxRows == 1
MaxTicks == 2
\* artists in one call of the resolver on its own
MaxResolveArtists == 2
\* the id lists given to the dedup on its own: ids 1..MaxSeedId, up to MaxSeedLen long
MaxSeedId == 3
MaxSeedLen == 5
\* the enrichment on its own: names up to MaxNameLen characters, batches of up
\* to MaxBatchRows rows, MaxCalls calls in a row
MaxNameLen == 2
MaxBatchRows == 2
MaxCalls == 2
\* the taste profile on its own: up to MaxClusters clusters with weights
\* 0..MaxWeight (and the weights of the documented example)
MaxClusters == 4
MaxWeight == 7
\* the buckets of the taste profile: up to MaxProfileClusters clusters, album
\* lists of up to MaxTasteAlbums rows by MaxTasteArtists artists in every
\* order, and lists of up to MaxSameArtistAlbums rows of one artist
MaxProfileClusters == 3
MaxTasteArtists == 2
MaxTasteAlbums == 3
MaxSameArtistAlbums == 21
\* the candidates of a catalog search: up to MaxCandidates items, dated in
\* the years FirstYear..LastYear
MaxCandidates == 3
\* concurrent lookups of the enrichment cache: MaxThreads threads
MaxThreads == 2
FirstYear == 2020
LastYear == 2021

\* ------------------------------------------------------- program constants
JOB_TTL_MINUTES == 60
ENRICH_MAX_ITEMS == 50
DEFAULT_RECS == 50
STRONG_THRESHOLD == 20
MODERATE_THRESHOLD == 10
TASTE_ENRICH_MAX_ITEMS == 25
\* taste.py line 113: top_n
TOP_N == 50
\* musicbrainz_client.py line 56
MB_MAX_RETRIES == 3
\* Python floats are IEEE-754 doubles: 53 significant bits
DoubleBits == 53

\* the clock is observed every half TTL
TickMinutes == JOB_TTL_MINUTES \div 2
MaxTime == MaxTicks * TickMinutes

NoSeedsDetail == "No MusicBrainz artist IDs resolved from input artists"
EmptyArtistsDetail == "artists list cannot be empty"
DbConnDetail == "Database connection error"
DbQueryDetail == "Database error during album recommendation"
JobNotFoundDetail == "Job not found"
JobFailedDetail == "Job failed"
JobNotFinishedDetail == "Job not finished"
UnexpectedText == "unexpected failure"

None == <<>>
Some(x) == <<x>>
IsSet(o) == o # <<>>

\* the ids uuid4 hands out, in this order
JobIds == {1, 2}
\* an id that create never hands out (a poll for an unknown job)
UnknownId == Cardinality(JobIds) + 1
SessionIds == {"s1"}
MbIds == {1, 2}

VARIABLES
  now,           \* datetime.utcnow(), in minutes
  jobs,          \* the Job objects ever constructed, by id
  JOB_REGISTRY,  \* the keys of the registry dict; key j maps to object jobs[j]
  JOB_LOCK,      \* 0 = free, j = held by the background task of job j
  SESSIONS,      \* session id -> session dict
  task,          \* background task of each job: position and locals
  req,           \* the request being served (one at a time)
  resp,          \* the response of the last request served
  call,          \* a library function called on its own: arguments, position, result
  album_enrichment_cache,  \* _album_enrichment_cache: normalized key -> payload or None
  lookup_log     \* the calls of enrich_album_from_spotify made so far, in order

\* the job manager's state, and the state of the functions called on their own
manager == <<now, jobs, JOB_REGISTRY, JOB_LOCK, SESSIONS, task, req, resp>>
library == <<album_enrichment_cache, lookup_log>>
harness == <<call, album_enrichment_cache, lookup_log>>
vars == <<now, jobs, JOB_REGISTRY, JOB_LOCK, SESSIONS, task, req, resp, call,
          album_enrichment_cache, lookup_log>>

\* ------------------------------------------------------------ data helpers
\* min with its first argument ignored
MinMutant(a, b) == b
Min(a, b) == IF a <= b THEN a ELSE b

JobProgress(stage, counts) == [stage |-> stage, counts |-> counts]

\* dataclass Job: the field defaults at construction time t (created_at is
\* written here only and never read by the job manager's logic: left out)
Job(id, t) ==
  [ id |-> id,
    status |-> "queued",
    progress |-> JobProgress("queued", {}),
    result |-> None,
    error |-> None,
    updated_at |-> t,
    expires_at |-> t + JOB_TTL_MINUTES ]

\* an exception in flight
HTTPException(code, detail) == [type |-> "HTTPException", status_code |-> code, detail |-> detail]
Exception(text) == [type |-> "Exception", status_code |-> 0, detail |-> text]

NoReq == [op |-> "idle", pc |-> "idle", job_id |-> UnknownId, artists |-> 0,
          session_id |-> None, enrich_spotify |-> FALSE, now |-> 0]

NoResp == [op |-> "none", job_id |-> UnknownId, code |-> 0, detail |-> None,
           status |-> None, stage |-> None, error |-> None,
           result |-> None]

\* no function is being called on its own
NoCall == [fn |-> "none"]

NoTask == [pc |-> "none", artists |-> 0, session_id |-> None, enrich_spotify |-> FALSE,
           stage |-> "", seeds |-> <<>>, resolved |-> 0, missed |-> 0,
           rows |-> <<>>, exc |-> None, query_calls |-> 0, enrich_calls |-> 0]

\* the job manager after the module is loaded
InitManager ==
  /\ now = 0
  /\ jobs = <<>>
  /\ JOB_REGISTRY = {}
  /\ JOB_LOCK = 0
  /\ SESSIONS = <<>>
  /\ task = [j \in JobIds |-> NoTask]
  /\ req = NoReq
  /\ resp = NoResp

\* spotify_enrichment.py line 14: the cache is empty, nothing was looked up
InitLibrary ==
  /\ album_enrichment_cache = <<>>
  /\ lookup_log = <<>>

Init ==
  /\ InitManager
  /\ InitLibrary
  /\ call = NoCall

\* ------------------------------------------------- _cleanup_expired_jobs
\* the comparison of line 308
IsExpiredMutant(job, t) == job.expires_at < t
IsExpired(job, t) == job.expires_at <= t

\* the keys the sweep deletes, for the clock value t it read before locking
to_delete(t) == {j \in JOB_REGISTRY : IsExpired(jobs[j], t)}

\* ------------------------------------------------------ request arrival
\* POST /jobs with n artists, an optional session cookie and the enrich flag
\* (ids: the job ids the specification lets create hand out)
CreateRequest(ids) ==
  /\ req.pc = "idle"
  /\ \/ req' = [NoReq EXCEPT !.op = "create", !.pc = "create_check"]
     \/ /\ Len(jobs) + 1 \in ids
        /\ \E n \in 1..MaxArtists, sid \in {None} \cup {Some(s) : s \in SessionIds},
              en \in BOOLEAN :
             req' = [NoReq EXCEPT !.op = "create", !.pc = "create_check", !.artists = n,
                                  !.session_id = sid, !.enrich_spotify = en]
  /\ resp' = NoResp
  /\ UNCHANGED <<harness, now, jobs, JOB_REGISTRY, JOB_LOCK, SESSIONS, task>>

\* GET /jobs/{job_id} or GET /jobs/{job_id}/result
PollRequest(ids) ==
  /\ req.pc = "idle"
  /\ \E op \in {"status", "result"}, id \in ids \cup {UnknownId} :
       req' = [NoReq EXCEPT !.op = op, !.pc = "cleanup_now", !.job_id = id]
  /\ resp' = NoResp
  /\ UNCHANGED <<harness, now, jobs, JOB_REGISTRY, JOB_LOCK, SESSIONS, task>>

\* ------------------------------------------------------ create_recs_job
\* lines 449-450: where create goes after looking at the artist list
CreateEntryMutant(n) == "cleanup_now"
CreateEntry(n) == IF n = 0 THEN "raise" ELSE "cleanup_now"

create_check ==
  /\ req.pc = "create_check"
  /\ IF CreateEntry(req.artists) = "raise"
       THEN /\ resp' = [NoResp EXCEPT !.op = "create", !.code = 400,
                                      !.detail = Some(EmptyArtistsDetail)]
            /\ req' = NoReq
       ELSE /\ req' = [req EXCEPT !.pc = "cleanup_now"]
            /\ resp' = resp
  /\ UNCHANGED <<harness, now, jobs, JOB_REGISTRY, JOB_LOCK, SESSIONS, task>>

\* line 306: now = datetime.utcnow(), read before the lock is taken
cleanup_now ==
  /\ req.pc = "cleanup_now"
  /\ req' = [req EXCEPT !.pc = "cleanup", !.now = now]
  /\ UNCHANGED <<harness, now, jobs, JOB_REGISTRY, JOB_LOCK, SESSIONS, task, resp>>

\* lines 307-310: the sweep, under the lock
cleanup ==
  /\ req.pc = "cleanup"
  /\ JOB_LOCK = 0
  /\ JOB_REGISTRY' = JOB_REGISTRY \ to_delete(req.now)
  /\ req' = [req EXCEPT !.pc = IF req.op = "create" THEN "store" ELSE "lookup"]
  /\ UNCHANGED <<harness, now, jobs, JOB_LOCK, SESSIONS, task, resp>>

\* lines 453-455: uuid4, Job(id=...), _store_job
store ==
  /\ req.pc = "store"
  /\ JOB_LOCK = 0
  /\ LET id == Len(jobs) + 1
         job == [Job(id, now) EXCEPT !.updated_at = now,
                                     !.expires_at = now + JOB_TTL_MINUTES]
     IN /\ jobs' = Append(jobs, job)
        /\ JOB_REGISTRY' = JOB_REGISTRY \cup {id}
        /\ req' = [req EXCEPT !.pc = "add_task", !.job_id = id]
  /\ UNCHANGED <<harness, now, JOB_LOCK, SESSIONS, task, resp>>

\* lines 458-477: schedule the background task and answer 202
add_task ==
  /\ req.pc = "add_task"
  /\ LET id == req.job_id
     IN /\ task' = [task EXCEPT ![id] =
                      [NoTask EXCEPT !.pc = "scheduled", !.artists = req.artists,
                                     !.session_id = req.session_id,
                                     !.enrich_spotify = req.enrich_spotify]]
        /\ resp' = [NoResp EXCEPT !.op = "create", !.job_id = id, !.code = 202,
                                  !.status = Some(jobs[id].status),
                                  !.stage = Some(jobs[id].progress.stage)]
  /\ req' = NoReq
  /\ UNCHANGED <<harness, now, jobs, JOB_REGISTRY, JOB_LOCK, SESSIONS>>

\* ------------------------------------------------------------- _get_job
\* lines 315-318: the lookup under the lock; 404 when the key is absent
lookup ==
  /\ req.pc = "lookup"
  /\ JOB_LOCK = 0
  /\ IF req.job_id \in JOB_REGISTRY
       THEN /\ req' = [req EXCEPT !.pc = "read_status"]
            /\ resp' = resp
       ELSE /\ resp' = [NoResp EXCEPT !.op = req.op, !.job_id = req.job_id,
                                      !.code = 404, !.detail = Some(JobNotFoundDetail)]
            /\ req' = NoReq
  /\ UNCHANGED <<harness, now, jobs, JOB_REGISTRY, JOB_LOCK, SESSIONS, task>>

\* ---------------------------- get_recs_job_status / get_recs_job_result
\* The Job object is read attribute by attribute, outside the lock.
\* where get_recs_job_result goes after reading job.status (lines 503-507)
ResultBranch(status) ==
  IF status = "done" THEN "read_result"
  ELSE IF status = "error" THEN "read_error"
  ELSE "read_status_again"

read_status ==
  /\ req.pc = "read_status"
  /\ LET job == jobs[req.job_id]
     IN IF req.op = "status"
          THEN /\ resp' = [resp EXCEPT !.status = Some(job.status)]
               /\ req' = [req EXCEPT !.pc = "read_stage"]
          ELSE /\ resp' = resp
               /\ req' = [req EXCEPT !.pc = ResultBranch(job.status)]
  /\ UNCHANGED <<harness, now, jobs, JOB_REGISTRY, JOB_LOCK, SESSIONS, task>>

\* line 504: return job.result
read_result ==
  /\ req.pc = "read_result"
  /\ resp' = [NoResp EXCEPT !.op = "result", !.job_id = req.job_id, !.code = 200,
                            !.result = jobs[req.job_id].result]
  /\ req' = NoReq
  /\ UNCHANGED <<harness, now, jobs, JOB_REGISTRY, JOB_LOCK, SESSIONS, task>>

\* line 506: detail = job.error or "Job failed"
ErrorDetail(error) == IF IsSet(error) THEN error[1] ELSE JobFailedDetail

read_error ==
  /\ req.pc = "read_error"
  /\ IF req.op = "result"
       THEN /\ resp' = [NoResp EXCEPT !.op = "result", !.job_id = req.job_id, !.code = 500,
                                      !.detail = Some(ErrorDetail(jobs[req.job_id].error))]
            /\ req' = NoReq
       ELSE /\ resp' = [resp EXCEPT !.error = jobs[req.job_id].error]
            /\ req' = [req EXCEPT !.pc = "read_times"]
  /\ UNCHANGED <<harness, now, jobs, JOB_REGISTRY, JOB_LOCK, SESSIONS, task>>

\* line 511: the 202 body reads job.status once more
read_status_again ==
  /\ req.pc = "read_status_again"
  /\ resp' = [resp EXCEPT !.status = Some(jobs[req.job_id].status)]
  /\ req' = [req EXCEPT !.pc = "read_stage"]
  /\ UNCHANGED <<harness, now, jobs, JOB_REGISTRY, JOB_LOCK, SESSIONS, task>>

read_stage ==
  /\ req.pc = "read_stage"
  /\ resp' = [resp EXCEPT !.stage = Some(jobs[req.job_id].progress.stage)]
  /\ req' = [req EXCEPT !.pc = "read_counts"]
  /\ UNCHANGED <<harness, now, jobs, JOB_REGISTRY, JOB_LOCK, SESSIONS, task>>

\* job.progress.counts is read next; the counts are not kept in resp
read_counts ==
  /\ req.pc = "read_counts"
  /\ IF req.op = "status"
       THEN /\ resp' = resp
            /\ req' = [req EXCEPT !.pc = "read_error"]
       ELSE /\ resp' = [resp EXCEPT !.op = "result", !.job_id = req.job_id, !.code = 202,
                                    !.detail = Some(JobNotFinishedDetail)]
            /\ req' = NoReq
  /\ UNCHANGED <<harness, now, jobs, JOB_REGISTRY, JOB_LOCK, SESSIONS, task>>

\* lines 491-493 in a version that refreshes expires_at when a job is polled
read_timesMutant ==
  /\ req.pc = "read_times"
  /\ resp' = [resp EXCEPT !.op = "status", !.job_id = req.job_id, !.code = 200]
  /\ jobs' = [jobs EXCEPT ![req.job_id].expires_at = now + JOB_TTL_MINUTES]
  /\ req' = NoReq
  /\ UNCHANGED <<harness, now, JOB_REGISTRY, JOB_LOCK, SESSIONS, task>>

\* lines 491-493: the three time stamps are read and formatted into the
\* answer; their values are not kept in resp
read_times ==
  /\ req.pc = "read_times"
  /\ resp' = [resp EXCEPT !.op = "status", !.job_id = req.job_id, !.code = 200]
  /\ req' = NoReq
  /\ UNCHANGED <<harness, now, jobs, JOB_REGISTRY, JOB_LOCK, SESSIONS, task>>

\* ------------------------------------------ resolve_mb_artists_from_spotify
\* What the collaborators answer for one artist: the lookup raises, finds
\* nothing, or finds a record whose mb_internal_id is an int (Some) or not
\* (None); the genre upsert then succeeds or raises.
LookupOutcomes ==
  {[lookup |-> "raise", internal_id |-> None, upsert |-> "ok"],
   [lookup |-> "none", internal_id |-> None, upsert |-> "ok"],
   [lookup |-> "found", internal_id |-> None, upsert |-> "ok"]}
  \cup {[lookup |-> "found", internal_id |-> Some(m), upsert |-> u] :
          m \in MbIds, u \in {"ok", "raise"}}

\* the clauses "except Exception" of lines 145 and 159: the classes they take
except_Exception(cls) == cls \in {"Exception", "HTTPException"}

\* the loop body of lines 141-169 for artist number i, with a genre upsert
\* whose failure drops the artist
RECURSIVE resolve_loopMutant(_, _, _, _)
resolve_loopMutant(artists, outs, i, acc) ==
  IF i > Len(artists) THEN acc
  ELSE LET name == artists[i]
           o == outs[i]
       IN IF o.lookup = "raise"
            THEN resolve_loopMutant(artists, outs, i + 1, acc)
          ELSE IF o.lookup = "none"
            THEN resolve_loopMutant(artists, outs, i + 1,
                   [acc EXCEPT !.missed_names = Append(@, name)])
          ELSE IF IsSet(o.internal_id) /\ o.upsert = "ok"
            THEN resolve_loopMutant(artists, outs, i + 1,
                   [acc EXCEPT !.mb_numeric_ids = Append(@, o.internal_id[1]),
                               !.resolved_names = Append(@, name)])
          ELSE resolve_loopMutant(artists, outs, i + 1,
                   [acc EXCEPT !.missed_names = Append(@, name)])

\* the loop body of lines 141-169 for artist number i; a collaborator that
\* raises, raises an instance of Exception; acc.raised: an exception left
\* the function
RECURSIVE resolve_loop(_, _, _, _)
resolve_loop(artists, outs, i, acc) ==
  IF i > Len(artists) \/ acc.raised THEN acc
  ELSE LET name == artists[i]
           o == outs[i]
       IN IF o.lookup = "raise"
            THEN \* lines 145-147: logged, continue
                 IF except_Exception("Exception")
                   THEN resolve_loop(artists, outs, i + 1, acc)
                   ELSE [acc EXCEPT !.raised = TRUE]
          ELSE IF o.lookup = "none"
            THEN resolve_loop(artists, outs, i + 1,
                   [acc EXCEPT !.missed_names = Append(@, name)])
          ELSE IF IsSet(o.internal_id)
            THEN LET appended == [acc EXCEPT !.mb_numeric_ids = Append(@, o.internal_id[1]),
                                             !.resolved_names = Append(@, name)]
                 IN \* lines 157-160: the upsert's failure is logged only
                    IF o.upsert = "raise" /\ ~except_Exception("Exception")
                      THEN [appended EXCEPT !.raised = TRUE]
                      ELSE resolve_loop(artists, outs, i + 1, appended)
          ELSE resolve_loop(artists, outs, i + 1,
                   [acc EXCEPT !.missed_names = Append(@, name)])

resolve_mb_artists_from_spotify(artists, outs) ==
  resolve_loop(artists, outs, 1,
    [mb_numeric_ids |-> <<>>, resolved_names |-> <<>>, missed_names |-> <<>>,
     raised |-> FALSE])

\* lines 381-388 with the test of line 385 left out
RECURSIVE seeds_loopMutant(_, _, _, _)
seeds_loopMutant(ids, i, seen, ordered) ==
  IF i > Len(ids) THEN ordered
  ELSE seeds_loopMutant(ids, i + 1, seen \cup {ids[i]}, Append(ordered, ids[i]))

\* lines 381-388: dedup while preserving order
RECURSIVE seeds_loop(_, _, _, _)
seeds_loop(ids, i, seen, ordered) ==
  IF i > Len(ids) THEN ordered
  ELSE IF ids[i] \in seen THEN seeds_loop(ids, i + 1, seen, ordered)
  ELSE seeds_loop(ids, i + 1, seen \cup {ids[i]}, Append(ordered, ids[i]))

seeds_ordered(mb_numeric_ids) == seeds_loop(mb_numeric_ids, 1, {}, <<>>)

\* the copy of the dedup in get_album_recommendations_from_spotify, lines 220-227
RECURSIVE from_spotify_seeds_loop(_, _, _, _)
from_spotify_seeds_loop(ids, i, seen, ordered) ==
  IF i > Len(ids) THEN ordered
  ELSE IF ids[i] \in seen THEN from_spotify_seeds_loop(ids, i + 1, seen, ordered)
  ELSE from_spotify_seeds_loop(ids, i + 1, seen \cup {ids[i]}, Append(ordered, ids[i]))

from_spotify_seeds_ordered(mb_numeric_ids) ==
  from_spotify_seeds_loop(mb_numeric_ids, 1, {}, <<>>)

\* taste.py, _dedup_ordered (lines 43-51)
RECURSIVE dedup_ordered_loop(_, _, _, _)
dedup_ordered_loop(items, i, seen, ordered) ==
  IF i > Len(items) THEN ordered
  ELSE IF items[i] \in seen THEN dedup_ordered_loop(items, i + 1, seen, ordered)
  ELSE dedup_ordered_loop(items, i + 1, seen \cup {items[i]}, Append(ordered, items[i]))

dedup_ordered(items) == dedup_ordered_loop(items, 1, {}, <<>>)

\* the artists of a request: n names
ArtistNames(n) == [i \in 1..n |-> i]

\* -------------------------------------------------- run_album_recs_query
Row(i) == [album |-> i, spotify |-> FALSE]
OracleRows == {[i \in 1..n |-> Row(i)] : n \in 0..MaxRows}

\* the connection fails, the query fails, or the oracle answers rows
QueryOutcomes ==
  {[kind |-> "conn_error", rows |-> <<>>], [kind |-> "query_error", rows |-> <<>>]}
  \cup {[kind |-> "rows", rows |-> r] : r \in OracleRows}

\* lines 105-125 with a failing query answered by an empty list
run_album_recs_queryMutant(o) ==
  IF o.kind = "conn_error"
    THEN [raised |-> TRUE, exc |-> HTTPException(500, DbConnDetail), rows |-> <<>>]
  ELSE [raised |-> FALSE, exc |-> HTTPException(0, ""), rows |-> o.rows]

\* lines 105-125: what the call does for an outcome of the database
run_album_recs_query(o) ==
  IF o.kind = "conn_error"
    THEN [raised |-> TRUE, exc |-> HTTPException(500, DbConnDetail), rows |-> <<>>]
  ELSE IF o.kind = "query_error"
    THEN [raised |-> TRUE, exc |-> HTTPException(500, DbQueryDetail), rows |-> <<>>]
  ELSE [raised |-> FALSE, exc |-> HTTPException(0, ""), rows |-> o.rows]

\* --------------------------------------------- enrich_albums_with_spotify
\* found[idx]: whether the album lookup of row idx returns a payload
enrich_albums_with_spotify(rows, enrich_spotify, max_items, found) ==
  IF ~enrich_spotify \/ rows = <<>> THEN rows
  ELSE [idx \in 1..Len(rows) |->
          IF idx <= Min(max_items, Len(rows)) /\ found[idx]
            THEN [rows[idx] EXCEPT !.spotify = TRUE]
            ELSE rows[idx]]

\* ------------------------------------------------ _choose_latest_album
\* A release_date is None or a string; the string "2021-05-01" is written as
\* its numbers <<2021, 5, 1>>, "2021" as <<2021>>, "" as <<>>.
IsLeap(y) == (y % 4 = 0 /\ y % 100 # 0) \/ y % 400 = 0
DaysInMonth(y, m) ==
  IF m \in {4, 6, 9, 11} THEN 30
  ELSE IF m = 2 THEN (IF IsLeap(y) THEN 29 ELSE 28)
  ELSE 31

\* datetime.strptime(padded, "%Y-%m-%d").date(), None when it raises
strptime(padded) ==
  IF /\ Len(padded) = 3
     /\ padded[1] \in 1..9999
     /\ padded[2] \in 1..12
     /\ padded[3] \in 1..DaysInMonth(padded[1], padded[2])
    THEN Some(padded)
    ELSE None

\* lines 21-34
coerce_release_date(release_date, precision) ==
  IF ~IsSet(release_date) \/ release_date = Some(<<>>) THEN None
  ELSE LET padded == IF precision = Some("year") THEN release_date[1] \o <<1, 1>>
                     ELSE IF precision = Some("month") THEN release_date[1] \o <<1>>
                     ELSE release_date[1]
       IN strptime(padded)

\* date a > date b
date_gt(a, b) ==
  \/ a[1] > b[1]
  \/ a[1] = b[1] /\ a[2] > b[2]
  \/ a[1] = b[1] /\ a[2] = b[2] /\ a[3] > b[3]

\* lines 41-52 with >= for > in line 50
RECURSIVE choose_loopMutant(_, _, _, _)
choose_loopMutant(items, i, best_item, best_date) ==
  IF i > Len(items) THEN [best_item |-> best_item, best_date |-> best_date]
  ELSE LET item == items[i]
           parsed_date == coerce_release_date(item.release_date, item.release_date_precision)
       IN IF ~IsSet(parsed_date) /\ ~IsSet(best_item)
            THEN choose_loopMutant(items, i + 1, Some(item), best_date)
          ELSE IF IsSet(parsed_date)
                  /\ (~IsSet(best_date) \/ ~date_gt(best_date[1], parsed_date[1]))
            THEN choose_loopMutant(items, i + 1, Some(item), parsed_date)
          ELSE choose_loopMutant(items, i + 1, best_item, best_date)

\* lines 41-52, from item number i on
RECURSIVE choose_loop(_, _, _, _)
choose_loop(items, i, best_item, best_date) ==
  IF i > Len(items) THEN [best_item |-> best_item, best_date |-> best_date]
  ELSE LET item == items[i]
           parsed_date == coerce_release_date(item.release_date, item.release_date_precision)
       IN IF ~IsSet(parsed_date) /\ ~IsSet(best_item)
            THEN choose_loop(items, i + 1, Some(item), best_date)
          ELSE IF IsSet(parsed_date)
                  /\ (~IsSet(best_date) \/ date_gt(parsed_date[1], best_date[1]))
            THEN choose_loop(items, i + 1, Some(item), parsed_date)
          ELSE choose_loop(items, i + 1, best_item, best_date)

\* lines 37-54
choose_latest_album(items) == choose_loop(items, 1, None, None)

\* -------------------------------------------- spotify_enrichment.py in detail
\* A name is a string, written as the sequence of its characters; the empty
\* string <<>> also stands for a missing name (row.get(...) or "").
Chars == {"a", "A", " "}
Names == UNION {[1..n -> Chars] : n \in 0..MaxNameLen}

\* str.lower
lower(s) == [i \in 1..Len(s) |-> IF s[i] = "A" THEN "a" ELSE s[i]]

\* str.strip
RECURSIVE lstrip(_)
lstrip(s) == IF s # <<>> /\ Head(s) = " " THEN lstrip(Tail(s)) ELSE s
RECURSIVE rstrip(_)
rstrip(s) == IF s # <<>> /\ s[Len(s)] = " " THEN rstrip(SubSeq(s, 1, Len(s) - 1)) ELSE s
strip(s) == rstrip(lstrip(s))

\* _normalize_key with str.lower left out
normalize_keyMutant(artist_name, album_name) == <<strip(artist_name), strip(album_name)>>
\* _normalize_key, lines 17-18
normalize_key(artist_name, album_name) ==
  <<lower(strip(artist_name)), lower(strip(album_name))>>

\* What the catalog search and the choice among its items come to for one
\* lookup: an exception, an empty item list, items of which none is chosen,
\* or a chosen album
SearchOutcomes == {"raise", "empty", "no_match", "match"}

\* lines 85-92: the payload built from the chosen album
Payload(artist_name, album_name) == [spotify_album_name |-> album_name]

\* the cache with key bound to value (lines 72, 77, 103)
CachePut(cache, key, value) ==
  [k \in DOMAIN cache \cup {key} |-> IF k = key THEN value ELSE cache[k]]

\* one record of lookup_log
Lookup(artist_name, album_name, searched, raised) ==
  [artist_name |-> artist_name, album_name |-> album_name,
   searched |-> searched, raised |-> raised]

\* enrich_album_from_spotify, lines 66-104, from the cache and log in st and
\* with outcome out of the search; raised: an exception leaves the function
enrich_album_from_spotify(artist_name, album_name, out, st) ==
  LET key == normalize_key(artist_name, album_name)
  IN IF key \in DOMAIN st.cache
       THEN [raised |-> FALSE, value |-> st.cache[key], cache |-> st.cache,
             log |-> Append(st.log, Lookup(artist_name, album_name, FALSE, FALSE))]
     ELSE IF out = "raise"
       THEN [raised |-> TRUE, value |-> None, cache |-> st.cache,
             log |-> Append(st.log, Lookup(artist_name, album_name, TRUE, TRUE))]
     ELSE IF out \in {"empty", "no_match"}
       THEN [raised |-> FALSE, value |-> None, cache |-> CachePut(st.cache, key, None),
             log |-> Append(st.log, Lookup(artist_name, album_name, TRUE, FALSE))]
     ELSE LET payload == Some(Payload(artist_name, album_name))
          IN [raised |-> FALSE, value |-> payload, cache |-> CachePut(st.cache, key, payload),
              log |-> Append(st.log, Lookup(artist_name, album_name, TRUE, FALSE))]

\* a row of the oracle: the two names the enrichment reads, and the spotify_*
\* fields (None until row.update adds them)
AlbumRow(artist_name, release_group_name) ==
  [artist_name |-> artist_name, release_group_name |-> release_group_name,
   spotify |-> None]

\* lines 119-134 with the except clause of line 129 left out: a lookup that
\* raises ends the call
RECURSIVE enrich_loopMutant(_, _, _, _, _)
enrich_loopMutant(rows, idx, limit, outs, st) ==
  IF idx > limit
    THEN [obj |-> "rows", rows |-> rows, cache |-> st.cache, log |-> st.log, raised |-> FALSE]
  ELSE LET artist_name == strip(rows[idx].artist_name)
           album_name == strip(rows[idx].release_group_name)
       IN IF artist_name = <<>> \/ album_name = <<>>
            THEN enrich_loopMutant(rows, idx + 1, limit, outs, st)
          ELSE LET r == enrich_album_from_spotify(artist_name, album_name, outs[idx], st)
                   st2 == [cache |-> r.cache, log |-> r.log]
               IN IF r.raised
                    THEN [obj |-> "rows", rows |-> rows, cache |-> r.cache, log |-> r.log,
                          raised |-> TRUE]
                  ELSE IF IsSet(r.value)
                    THEN enrich_loopMutant([rows EXCEPT ![idx].spotify = r.value],
                                           idx + 1, limit, outs, st2)
                  ELSE enrich_loopMutant(rows, idx + 1, limit, outs, st2)

\* lines 119-134 with the test of lines 124-125 left out: a row without a
\* name is looked up like the others
RECURSIVE enrich_loopNoSkip(_, _, _, _, _)
enrich_loopNoSkip(rows, idx, limit, outs, st) ==
  IF idx > limit
    THEN [obj |-> "rows", rows |-> rows, cache |-> st.cache, log |-> st.log, raised |-> FALSE]
  ELSE LET artist_name == strip(rows[idx].artist_name)
           album_name == strip(rows[idx].release_group_name)
           r == enrich_album_from_spotify(artist_name, album_name, outs[idx], st)
           st2 == [cache |-> r.cache, log |-> r.log]
       IN IF ~r.raised /\ IsSet(r.value)
            THEN enrich_loopNoSkip([rows EXCEPT ![idx].spotify = r.value],
                                   idx + 1, limit, outs, st2)
            ELSE enrich_loopNoSkip(rows, idx + 1, limit, outs, st2)

\* lines 119-134: the loop over the first limit rows (idx counts from 1);
\* rows is the list object, changed in place
RECURSIVE enrich_loop(_, _, _, _, _)
enrich_loop(rows, idx, limit, outs, st) ==
  IF idx > limit
    THEN [obj |-> "rows", rows |-> rows, cache |-> st.cache, log |-> st.log, raised |-> FALSE]
  ELSE LET artist_name == strip(rows[idx].artist_name)
           album_name == strip(rows[idx].release_group_name)
       IN IF artist_name = <<>> \/ album_name = <<>>
            THEN enrich_loop(rows, idx + 1, limit, outs, st)
          ELSE LET r == enrich_album_from_spotify(artist_name, album_name, outs[idx], st)
                   st2 == [cache |-> r.cache, log |-> r.log]
               IN IF r.raised
                    THEN \* lines 129-131: logged, continue
                         enrich_loop(rows, idx + 1, limit, outs, st2)
                  ELSE IF IsSet(r.value)
                    THEN enrich_loop([rows EXCEPT ![idx].spotify = r.value],
                                     idx + 1, limit, outs, st2)
                  ELSE enrich_loop(rows, idx + 1, limit, outs, st2)

\* enrich_albums_with_spotify with the test of enrich_spotify left out
enrich_rowsMutant(rows, enrich_spotify, max_items, outs, st) ==
  IF rows = <<>>
    THEN [obj |-> "rows", rows |-> rows, cache |-> st.cache, log |-> st.log, raised |-> FALSE]
    ELSE enrich_loop(rows, 1, Min(max_items, Len(rows)), outs, st)

\* enrich_albums_with_spotify, lines 115-136, with the cache and the search:
\* obj names the list object returned, rows its contents
enrich_rows(rows, enrich_spotify, max_items, outs, st) ==
  IF ~enrich_spotify \/ rows = <<>>
    THEN [obj |-> "rows", rows |-> rows, cache |-> st.cache, log |-> st.log, raised |-> FALSE]
    ELSE enrich_loop(rows, 1, Min(max_items, Len(rows)), outs, st)

\* ---------------------------------------------- ensure_session_defaults
NewSession == [mb_artist_mbids |-> <<>>, album_recs |-> None]

\* the session stored with its defaults only, the rows left out
SessionWriteDefaults(sessions, sid, rows) ==
  [s \in DOMAIN sessions \cup {sid} |-> IF s \in DOMAIN sessions THEN sessions[s] ELSE NewSession]

\* session.py lines 51-53, then recs.py lines 413-414
SessionWrite(sessions, sid, rows) ==
  LET session == IF sid \in DOMAIN sessions THEN sessions[sid] ELSE NewSession
  IN [s \in DOMAIN sessions \cup {sid} |->
        IF s = sid THEN [session EXCEPT !.album_recs = Some(rows)] ELSE sessions[s]]

\* --------------------------------------------------------- run_recs_job
\* lines 427-432: which except clause takes an exception raised in the try
HandlerMutant(exc) == IF exc.type = "HTTPException" THEN "http" ELSE "propagate"
Handler(exc) ==
  IF exc.type = "HTTPException" THEN "http"
  ELSE IF exc.type = "Exception" THEN "generic"
  ELSE "propagate"

\* lines 428 and 431: the message handed to _mark_job_error
ErrorMessageMutant(exc) == IF exc.type = "HTTPException" THEN exc.detail ELSE JobFailedDetail
\* every failure recorded with the same text
ErrorMessageGeneric(exc) == JobFailedDetail
ErrorMessage(exc) == exc.detail

\* the task after exc was raised inside the try block: an exception no
\* clause takes leaves run_recs_job, the others end in _mark_job_error
Raise(t, exc) ==
  IF Handler(exc) = "propagate"
    THEN [t EXCEPT !.pc = "propagated", !.exc = Some(exc)]
    ELSE [t EXCEPT !.pc = "err_status", !.exc = Some(exc)]

\* line 399: the stage announced once seeds were resolved
StageAfterResolvedMutant == "enriching_spotify"
StageAfterResolved == "fetching_recs"

\* the task once _update_job_progress(stage) has returned: the external call
\* that follows, or for "resolved" the test of lines 396-399
AfterMutant(t) ==
  CASE t.stage = "resolving_seeds" -> [t EXCEPT !.pc = "call_resolve"]
    [] t.stage = "resolved" ->
         [t EXCEPT !.pc = "update_progress", !.stage = StageAfterResolved,
                   !.resolved = 0, !.missed = 0]
    [] t.stage = "fetching_recs" -> [t EXCEPT !.pc = "call_query"]
    [] t.stage = "enriching_spotify" -> [t EXCEPT !.pc = "call_enrich"]
After(t) ==
  CASE t.stage = "resolving_seeds" -> [t EXCEPT !.pc = "call_resolve"]
    [] t.stage = "resolved" ->
         IF t.seeds = <<>>
           THEN Raise(t, HTTPException(400, NoSeedsDetail))
           ELSE [t EXCEPT !.pc = "update_progress", !.stage = StageAfterResolved,
                          !.resolved = 0, !.missed = 0]
    [] t.stage = "fetching_recs" -> [t EXCEPT !.pc = "call_query"]
    [] t.stage = "enriching_spotify" -> [t EXCEPT !.pc = "call_enrich"]

\* the counts argument of each _update_job_progress call
Counts(t, stage) ==
  CASE stage = "resolving_seeds" -> {<<"artists", t.artists>>}
    [] stage = "resolved" -> {<<"resolved", t.resolved>>, <<"missed", t.missed>>,
                              <<"unique_seeds", Len(t.seeds)>>}
    [] stage = "fetching_recs" -> {<<"seeds", Len(t.seeds)>>}
    [] stage = "enriching_spotify" -> {<<"albums", Len(t.rows)>>}

\* the attribute writes made to a stored Job
\* line 371
StatusRunningMutant(job) == job
StatusRunning(job) == [job EXCEPT !.status = "running"]
\* line 420
StatusDoneMutant(job) == job
StatusDone(job) == [job EXCEPT !.status = "done"]
\* line 346
StatusError(job) == [job EXCEPT !.status = "error"]
\* the time stamps a mutation writes (lines 335-336, 349-350, 423-424)
Touch(job, t) == [job EXCEPT !.updated_at = t, !.expires_at = t + JOB_TTL_MINUTES]

\* job = JOB_REGISTRY.get(job_id) and the test "if not job: return"
\* (lines 331-333, 343-345, 368-370, 417-419)
JOB_REGISTRY_getMutant(j) == TRUE
JOB_REGISTRY_get(j) == j \in JOB_REGISTRY
\* JOB_REGISTRY[job_id] = job (lines 337, 351, 374, 425)
JOB_REGISTRY_set(j) == JOB_REGISTRY' = JOB_REGISTRY \cup {j}

SetJob(j, job) == jobs' = [jobs EXCEPT ![j] = job]
SetTask(j, t) == task' = [task EXCEPT ![j] = t]

\* lines 367-371: take the lock, look the job up, status = "running"
run_status(j) ==
  /\ task[j].pc = "scheduled"
  /\ JOB_LOCK = 0
  /\ IF JOB_REGISTRY_get(j)
       THEN /\ SetJob(j, StatusRunning(jobs[j]))
            /\ JOB_LOCK' = j
            /\ SetTask(j, [task[j] EXCEPT !.pc = "run_updated_at"])
       ELSE /\ SetTask(j, [task[j] EXCEPT !.pc = "returned"])
            /\ UNCHANGED <<jobs, JOB_LOCK>>
  /\ UNCHANGED <<harness, now, JOB_REGISTRY, SESSIONS, req, resp>>

\* line 372
run_updated_at(j) ==
  /\ task[j].pc = "run_updated_at"
  /\ SetJob(j, [jobs[j] EXCEPT !.updated_at = now])
  /\ SetTask(j, [task[j] EXCEPT !.pc = "run_progress"])
  /\ UNCHANGED <<harness, now, JOB_REGISTRY, JOB_LOCK, SESSIONS, req, resp>>

\* lines 373-374 with the lock never released
run_progressMutant(j) ==
  /\ task[j].pc = "run_progress"
  /\ SetJob(j, [jobs[j] EXCEPT !.progress = JobProgress("resolving_seeds", {})])
  /\ JOB_LOCK' = JOB_LOCK
  /\ SetTask(j, [task[j] EXCEPT !.pc = "update_progress", !.stage = "resolving_seeds"])
  /\ JOB_REGISTRY_set(j)
  /\ UNCHANGED <<harness, now, SESSIONS, req, resp>>

\* lines 373-374, the lock is released; line 378 comes next
run_progress(j) ==
  /\ task[j].pc = "run_progress"
  /\ SetJob(j, [jobs[j] EXCEPT !.progress = JobProgress("resolving_seeds", {})])
  /\ JOB_LOCK' = 0
  /\ SetTask(j, [task[j] EXCEPT !.pc = "update_progress", !.stage = "resolving_seeds"])
  /\ JOB_REGISTRY_set(j)
  /\ UNCHANGED <<harness, now, SESSIONS, req, resp>>

\* _update_job_progress, lines 330-334
update_progress(j) ==
  /\ task[j].pc = "update_progress"
  /\ JOB_LOCK = 0
  /\ IF JOB_REGISTRY_get(j)
       THEN /\ SetJob(j, [jobs[j] EXCEPT !.progress =
                            JobProgress(task[j].stage, Counts(task[j], task[j].stage))])
            /\ JOB_LOCK' = j
            /\ SetTask(j, [task[j] EXCEPT !.pc = "update_progress_ts"])
       ELSE /\ SetTask(j, After(task[j]))
            /\ UNCHANGED <<jobs, JOB_LOCK>>
  /\ UNCHANGED <<harness, now, JOB_REGISTRY, SESSIONS, req, resp>>

\* _update_job_progress, lines 335-337, with the lock kept after the block
update_progress_tsMutant(j) ==
  /\ task[j].pc = "update_progress_ts"
  /\ SetJob(j, Touch(jobs[j], now))
  /\ JOB_LOCK' = JOB_LOCK
  /\ SetTask(j, After(task[j]))
  /\ JOB_REGISTRY_set(j)
  /\ UNCHANGED <<harness, now, SESSIONS, req, resp>>

\* _update_job_progress, lines 335-337, the lock is released
update_progress_ts(j) ==
  /\ task[j].pc = "update_progress_ts"
  /\ SetJob(j, Touch(jobs[j], now))
  /\ JOB_LOCK' = 0
  /\ SetTask(j, After(task[j]))
  /\ JOB_REGISTRY_set(j)
  /\ UNCHANGED <<harness, now, SESSIONS, req, resp>>

\* line 379 and lines 381-388: the resolver returns (or raises), the ids are deduplicated
\* the task once the resolver answered outs for its artists
Resolved(t, outs) ==
  LET r == resolve_mb_artists_from_spotify(ArtistNames(t.artists), outs)
  IN [t EXCEPT !.pc = "update_progress", !.stage = "resolved",
               !.seeds = seeds_ordered(r.mb_numeric_ids),
               !.resolved = Len(r.resolved_names),
               !.missed = Len(r.missed_names),
               !.artists = 0]

call_resolve(j) ==
  /\ task[j].pc = "call_resolve"
  /\ \/ \E outs \in [1..task[j].artists -> LookupOutcomes] : SetTask(j, Resolved(task[j], outs))
     \/ SetTask(j, Raise(task[j], Exception(UnexpectedText)))
  /\ UNCHANGED <<harness, now, jobs, JOB_REGISTRY, JOB_LOCK, SESSIONS, req, resp>>

\* lines 400-406
\* the task once the oracle answered o
Queried(task_j, o) ==
  LET r == run_album_recs_query(o)
      t == [task_j EXCEPT !.query_calls = @ + 1]
  IN IF r.raised
       THEN Raise(t, r.exc)
       ELSE [t EXCEPT !.pc = "update_progress", !.stage = "enriching_spotify",
                      !.rows = r.rows]

call_query(j) ==
  /\ task[j].pc = "call_query"
  /\ \E o \in QueryOutcomes : SetTask(j, Queried(task[j], o))
  /\ UNCHANGED <<harness, now, jobs, JOB_REGISTRY, JOB_LOCK, SESSIONS, req, resp>>

\* line 409, and the test of line 411
\* the task once the enrichment returned, found telling the rows it matched
Enriched(task_j, found) ==
  LET t == [task_j EXCEPT !.enrich_calls = @ + 1]
      next == IF IsSet(t.session_id) THEN "session_write" ELSE "done_status"
  IN [t EXCEPT !.pc = next,
               !.rows = enrich_albums_with_spotify(
                          t.rows, t.enrich_spotify, ENRICH_MAX_ITEMS, found)]

call_enrich(j) ==
  /\ task[j].pc = "call_enrich"
  /\ \/ \E found \in [1..Len(task[j].rows) -> BOOLEAN] : SetTask(j, Enriched(task[j], found))
     \/ SetTask(j, Raise([task[j] EXCEPT !.enrich_calls = @ + 1], Exception(UnexpectedText)))
  /\ UNCHANGED <<harness, now, jobs, JOB_REGISTRY, JOB_LOCK, SESSIONS, req, resp>>

\* lines 412-414
session_write(j) ==
  /\ task[j].pc = "session_write"
  /\ \/ /\ SESSIONS' = SessionWrite(SESSIONS, task[j].session_id[1], task[j].rows)
        /\ SetTask(j, [task[j] EXCEPT !.pc = "done_status"])
     \/ /\ SetTask(j, Raise(task[j], Exception(UnexpectedText)))
        /\ UNCHANGED SESSIONS
  /\ UNCHANGED <<harness, now, jobs, JOB_REGISTRY, JOB_LOCK, req, resp>>

\* lines 416-420
done_status(j) ==
  /\ task[j].pc = "done_status"
  /\ JOB_LOCK = 0
  /\ IF JOB_REGISTRY_get(j)
       THEN /\ SetJob(j, StatusDone(jobs[j]))
            /\ JOB_LOCK' = j
            /\ SetTask(j, [task[j] EXCEPT !.pc = "done_result"])
       ELSE /\ SetTask(j, [task[j] EXCEPT !.pc = "returned"])
            /\ UNCHANGED <<jobs, JOB_LOCK>>
  /\ UNCHANGED <<harness, now, JOB_REGISTRY, SESSIONS, req, resp>>

\* line 421
done_result(j) ==
  /\ task[j].pc = "done_result"
  /\ SetJob(j, [jobs[j] EXCEPT !.result = Some(task[j].rows)])
  /\ SetTask(j, [task[j] EXCEPT !.pc = "done_progress"])
  /\ UNCHANGED <<harness, now, JOB_REGISTRY, JOB_LOCK, SESSIONS, req, resp>>

\* line 422
done_progress(j) ==
  /\ task[j].pc = "done_progress"
  /\ SetJob(j, [jobs[j] EXCEPT !.progress =
                  JobProgress("done", {<<"albums", Len(task[j].rows)>>})])
  /\ SetTask(j, [task[j] EXCEPT !.pc = "done_ts"])
  /\ UNCHANGED <<harness, now, JOB_REGISTRY, JOB_LOCK, SESSIONS, req, resp>>

\* lines 423-425, the lock is released
done_ts(j) ==
  /\ task[j].pc = "done_ts"
  /\ SetJob(j, Touch(jobs[j], now))
  /\ JOB_LOCK' = 0
  /\ SetTask(j, [task[j] EXCEPT !.pc = "returned"])
  /\ JOB_REGISTRY_set(j)
  /\ UNCHANGED <<harness, now, SESSIONS, req, resp>>

\* _mark_job_error, lines 342-346
err_status(j) ==
  /\ task[j].pc = "err_status"
  /\ JOB_LOCK = 0
  /\ IF JOB_REGISTRY_get(j)
       THEN /\ SetJob(j, StatusError(jobs[j]))
            /\ JOB_LOCK' = j
            /\ SetTask(j, [task[j] EXCEPT !.pc = "err_error"])
       ELSE /\ SetTask(j, [task[j] EXCEPT !.pc = "returned"])
            /\ UNCHANGED <<jobs, JOB_LOCK>>
  /\ UNCHANGED <<harness, now, JOB_REGISTRY, SESSIONS, req, resp>>

\* line 347
err_error(j) ==
  /\ task[j].pc = "err_error"
  /\ SetJob(j, [jobs[j] EXCEPT !.error = Some(ErrorMessage(task[j].exc[1]))])
  /\ SetTask(j, [task[j] EXCEPT !.pc = "err_progress"])
  /\ UNCHANGED <<harness, now, JOB_REGISTRY, JOB_LOCK, SESSIONS, req, resp>>

\* line 348
err_progress(j) ==
  /\ task[j].pc = "err_progress"
  /\ SetJob(j, [jobs[j] EXCEPT !.progress = JobProgress("error", {})])
  /\ SetTask(j, [task[j] EXCEPT !.pc = "err_ts"])
  /\ UNCHANGED <<harness, now, JOB_REGISTRY, JOB_LOCK, SESSIONS, req, resp>>

\* lines 349-351, the lock is released
err_ts(j) ==
  /\ task[j].pc = "err_ts"
  /\ SetJob(j, Touch(jobs[j], now))
  /\ JOB_LOCK' = 0
  /\ SetTask(j, [task[j] EXCEPT !.pc = "returned"])
  /\ JOB_REGISTRY_set(j)
  /\ UNCHANGED <<harness, now, SESSIONS, req, resp>>

Background(j) ==
  \/ run_status(j) \/ run_updated_at(j) \/ run_progress(j)
  \/ update_progress(j) \/ update_progress_ts(j)
  \/ call_resolve(j) \/ call_query(j) \/ call_enrich(j)
  \/ session_write(j)
  \/ done_status(j) \/ done_result(j) \/ done_progress(j) \/ done_ts(j)
  \/ err_status(j) \/ err_error(j) \/ err_progress(j) \/ err_ts(j)

\* the clock advances
Tick ==
  /\ now + TickMinutes <= MaxTime
  /\ now' = now + TickMinutes
  /\ UNCHANGED <<harness, jobs, JOB_REGISTRY, JOB_LOCK, SESSIONS, task, req, resp>>

Request(ids) ==
  \/ CreateRequest(ids) \/ PollRequest(ids)
  \/ create_check \/ cleanup_now \/ cleanup \/ store \/ add_task
  \/ lookup \/ read_status \/ read_result \/ read_error \/ read_status_again
  \/ read_stage \/ read_counts \/ read_times

\* the system in which create hands out the ids of the set ids
Next(ids) == Tick \/ Request(ids) \/ \E j \in ids : Background(j)

\* one job, its background task and the requests of a client
Spec == Init /\ [][Next({1})]_vars

\* two jobs and their background tasks; the only requests are creates sent
\* with a session cookie and enrich_spotify=false, and the sweep runs when a
\* job is created
CreateRequestWithCookie(ids) ==
  /\ req.pc = "idle"
  /\ Len(jobs) + 1 \in ids
  /\ \E n \in 1..MaxArtists, s \in SessionIds :
       req' = [NoReq EXCEPT !.op = "create", !.pc = "create_check", !.artists = n,
                            !.session_id = Some(s)]
  /\ resp' = NoResp
  /\ UNCHANGED <<harness, now, jobs, JOB_REGISTRY, JOB_LOCK, SESSIONS, task>>

NextTwoJobs ==
  \/ Tick
  \/ CreateRequestWithCookie(JobIds) \/ create_check \/ cleanup_now \/ cleanup \/ store \/ add_task
  \/ \E j \in JobIds : Background(j)

SpecTwoJobs == Init /\ [][NextTwoJobs]_vars

\* the same with fair scheduling: the request that stored a job goes on to
\* schedule its task, and a task that can take a step does so; the calls of
\* the resolver, the oracle and the enrichment are steps of the task, so
\* they return or raise
FairTwoJobs ==
  /\ WF_vars(add_task)
  /\ \A j \in JobIds : WF_vars(Background(j))

SpecTwoJobsFair == Init /\ [][NextTwoJobs]_vars /\ FairTwoJobs

\* two jobs, their background tasks, and a client that creates them and
\* polls their status and result; the clock stands still
NextServe ==
  \/ CreateRequestWithCookie(JobIds) \/ PollRequest(JobIds)
  \/ create_check \/ cleanup_now \/ cleanup \/ store \/ add_task
  \/ lookup \/ read_status \/ read_result \/ read_error \/ read_status_again
  \/ read_stage \/ read_counts \/ read_times
  \/ \E j \in JobIds : Background(j)

SpecServe == Init /\ [][NextServe]_vars

\* two jobs created at different times and the polls that sweep them, with
\* the first job's task running and the second one still waiting to start
NextSweep ==
  \/ Tick
  \/ CreateRequestWithCookie(JobIds) \/ PollRequest(JobIds)
  \/ create_check \/ cleanup_now \/ cleanup \/ store \/ add_task
  \/ lookup \/ read_status \/ read_result \/ read_error \/ read_status_again
  \/ read_stage \/ read_counts \/ read_times
  \/ Background(1)

SpecSweep == Init /\ [][NextSweep]_vars

\* ------------------------------------------------------- Python floats
\* A float >= 0 is zero, or value 0.m[1]m[2]...m[53] * 2^e with m[1] = 1.
\* Division and addition round to nearest, ties to even, as the hardware does.
FZero == [zero |-> TRUE, e |-> 0, m |-> <<>>]

Zeros(n) == [i \in 1..n |-> 0]

\* bits + 1, for bits that are not all ones
Inc(bits) ==
  LET p == CHOOSE i \in 1..Len(bits) :
             bits[i] = 0 /\ \A j \in (i + 1)..Len(bits) : bits[j] = 1
  IN [i \in 1..Len(bits) |-> IF i < p THEN bits[i] ELSE IF i = p THEN 1 ELSE 0]

\* the float with exponent e and the DoubleBits leading bits m, rounded up or not
Round(e, m, up) ==
  IF ~up THEN [zero |-> FALSE, e |-> e, m |-> m]
  ELSE IF \A i \in 1..Len(m) : m[i] = 1
    THEN [zero |-> FALSE, e |-> e + 1, m |-> <<1>> \o Zeros(Len(m) - 1)]
  ELSE [zero |-> FALSE, e |-> e, m |-> Inc(m)]

\* num/den * 2^e = a/b with 1/2 <= num/den < 1
RECURSIVE Normalize(_, _, _)
Normalize(num, den, e) ==
  IF num >= den THEN Normalize(num, 2 * den, e + 1)
  ELSE IF 2 * num < den THEN Normalize(2 * num, den, e - 1)
  ELSE [num |-> num, den |-> den, e |-> e]

\* long division of num/den < 1: its first DoubleBits bits and the remainder
\* (P(k) is 2^k modulo den, in steps of 16 bits to stay within 32-bit
\* integers; R[k] is the remainder left after k bits)
DivBits(num, den) ==
  LET q == (2 ^ 16) % den
      Q(j) == IF j = 0 THEN 1 % den
              ELSE IF j = 1 THEN q
              ELSE IF j = 2 THEN (q * q) % den
              ELSE (((q * q) % den) * q) % den
      P(k) == (Q(k \div 16) * ((2 ^ (k % 16)) % den)) % den
      R == [k \in 0..DoubleBits |-> (num * P(k)) % den]
  IN [m |-> [k \in 1..DoubleBits |-> IF 2 * R[k - 1] >= den THEN 1 ELSE 0],
      r |-> R[DoubleBits]]

\* float(a) / float(b) for integers a >= 0 and b > 0
fdiv(a, b) ==
  IF a = 0 THEN FZero
  ELSE LET n == Normalize(a, b, 0)
           d == DivBits(n.num, n.den)
           up == 2 * d.r > n.den \/ (2 * d.r = n.den /\ d.m[DoubleBits] = 1)
       IN Round(n.e, d.m, up)

\* a + b for bit strings of the same length, most significant bit first:
\* the bits of the sum, one longer when there is a carry out
AddBits(a, b) ==
  LET n == Len(a)
      \* the carry into position i
      carry(i) == \E j \in (i + 1)..n :
                    /\ a[j] = 1 /\ b[j] = 1
                    /\ \A k \in (i + 1)..(j - 1) : a[k] + b[k] = 1
      sum == [i \in 1..n |-> (a[i] + b[i] + (IF carry(i) THEN 1 ELSE 0)) % 2]
  IN IF carry(0) THEN <<1>> \o sum ELSE sum

\* x + y
fadd(x, y) ==
  IF x.zero THEN y
  ELSE IF y.zero THEN x
  ELSE LET hi == IF x.e >= y.e THEN x ELSE y
           lo == IF x.e >= y.e THEN y ELSE x
           d == hi.e - lo.e
           a == hi.m \o Zeros(d)
           b == Zeros(d) \o lo.m
           sum == AddBits(a, b)
           e == IF Len(sum) > Len(a) THEN hi.e + 1 ELSE hi.e
           m == SubSeq(sum, 1, DoubleBits)
           rest == SubSeq(sum, DoubleBits + 1, Len(sum))
           up == /\ rest # <<>>
                 /\ rest[1] = 1
                 /\ \/ m[DoubleBits] = 1
                    \/ \E k \in 2..Len(rest) : rest[k] = 1
       IN Round(e, m, up)

\* x < y
flt(x, y) ==
  IF y.zero THEN FALSE
  ELSE IF x.zero THEN TRUE
  ELSE IF x.e # y.e THEN x.e < y.e
  ELSE \E i \in 1..DoubleBits :
         x.m[i] < y.m[i] /\ \A j \in 1..(i - 1) : x.m[j] = y.m[j]

\* ------------------------------------------------------ taste_profile
\* taste.py lines 30-31: the literals 0.03 and 0.85 as floats
MIN_CLUSTER_SHARE == fdiv(3, 100)
CUM_SHARE_TARGET == fdiv(85, 100)

NoClustersDetail == "No taste clusters found for user"
ZeroWeightDetail == "No taste clusters found for user (zero weight)"
NoIncludedDetail == "No taste clusters met inclusion thresholds"

\* line 117: the sum of the (integer) weights, exact as a float
RECURSIVE total_weight(_)
total_weight(all_clusters) ==
  IF all_clusters = <<>> THEN 0
  ELSE Head(all_clusters).weight + total_weight(Tail(all_clusters))

\* lines 124-133: the walk from cluster number i on; included holds the
\* clusters taken so far, with their weight_share
RECURSIVE included_loop(_, _, _, _, _)
included_loop(all_clusters, i, total, included, cum_share) ==
  IF i > Len(all_clusters) THEN [included |-> included, cum_share |-> cum_share]
  ELSE LET cluster == all_clusters[i]
           weight_share == fdiv(cluster.weight, total)
       IN IF flt(weight_share, MIN_CLUSTER_SHARE)
            THEN included_loop(all_clusters, i + 1, total, included, cum_share)
          ELSE LET inc == Append(included,
                            [cluster_id |-> cluster.cluster_id, weight |-> cluster.weight,
                             weight_share |-> weight_share])
                   cum == fadd(cum_share, weight_share)
               IN IF ~flt(cum, CUM_SHARE_TARGET)
                    THEN [included |-> inc, cum_share |-> cum]
                    ELSE included_loop(all_clusters, i + 1, total, inc, cum)

\* lines 113-133 without the test of lines 135-136
included_clustersMutant(all_clusters) ==
  IF all_clusters = <<>>
    THEN [code |-> 404, detail |-> NoClustersDetail, included |-> <<>>, cum_share |-> FZero]
  ELSE IF total_weight(all_clusters) <= 0
    THEN [code |-> 404, detail |-> ZeroWeightDetail, included |-> <<>>, cum_share |-> FZero]
  ELSE LET w == included_loop(all_clusters, 1, total_weight(all_clusters), <<>>, FZero)
       IN [code |-> 200, detail |-> "", included |-> w.included, cum_share |-> w.cum_share]

\* lines 113-136: the clusters the profile includes, or the 404 it raises
included_clusters(all_clusters) ==
  IF all_clusters = <<>>
    THEN [code |-> 404, detail |-> NoClustersDetail, included |-> <<>>, cum_share |-> FZero]
  ELSE IF total_weight(all_clusters) <= 0
    THEN [code |-> 404, detail |-> ZeroWeightDetail, included |-> <<>>, cum_share |-> FZero]
  ELSE LET w == included_loop(all_clusters, 1, total_weight(all_clusters), <<>>, FZero)
       IN IF w.included = <<>>
            THEN [code |-> 404, detail |-> NoIncludedDetail, included |-> <<>>,
                  cum_share |-> w.cum_share]
            ELSE [code |-> 200, detail |-> "", included |-> w.included,
                  cum_share |-> w.cum_share]

\* ------------------------------------------- taste_profile: the buckets
\* lines 35-40 with > for >=
strength_labelMutant(album_count) ==
  IF album_count > STRONG_THRESHOLD THEN "Strong"
  ELSE IF album_count > MODERATE_THRESHOLD THEN "Moderate"
  ELSE "Weak"

\* lines 35-40
strength_label(album_count) ==
  IF album_count >= STRONG_THRESHOLD THEN "Strong"
  ELSE IF album_count >= MODERATE_THRESHOLD THEN "Moderate"
  ELSE "Weak"

\* an album row: album tells the rows apart, artist_id is Some(n) for an int
\* and None for anything else (a missing id, a string), spotify says whether
\* the enrichment added its fields
TasteAlbum(album, artist_id) == [album |-> album, artist_id |-> artist_id, spotify |-> FALSE]

\* line 141: the artists asked for in fetch_artist_primary_clusters
int_artist_ids(albums) ==
  {albums[k].artist_id[1] : k \in {i \in 1..Len(albums) : IsSet(albums[i].artist_id)}}

\* the key "other" of the dict buckets; the key of a cluster is Some(cluster_id)
OtherKey == None

\* lines 144-165: a dict, so a cluster_id met again overwrites its bucket
init_buckets(included) ==
  [key \in {Some(included[k].cluster_id) : k \in 1..Len(included)} \cup {OtherKey} |->
     IF key = OtherKey
       THEN [cluster_id |-> None, weight |-> None, weight_share |-> None, albums |-> <<>>]
       ELSE LET k == CHOOSE i \in 1..Len(included) :
                       /\ included[i].cluster_id = key[1]
                       /\ \A j \in (i + 1)..Len(included) : included[j].cluster_id # key[1]
            IN [cluster_id |-> key, weight |-> Some(included[k].weight),
                weight_share |-> Some(included[k].weight_share), albums |-> <<>>]]

\* every album sent to the Other bucket
bucket_keyMutant(album, cluster_map, buckets) == OtherKey

\* lines 168-174
bucket_key(album, cluster_map, buckets) ==
  LET artist_id == album.artist_id
      cid == IF IsSet(artist_id) /\ artist_id[1] \in DOMAIN cluster_map
               THEN Some(cluster_map[artist_id[1]])
               ELSE OtherKey
  IN IF cid \in DOMAIN buckets THEN cid ELSE OtherKey

\* lines 167-175, from album number i on
RECURSIVE place_albums(_, _, _, _)
place_albums(albums, i, cluster_map, buckets) ==
  IF i > Len(albums) THEN buckets
  ELSE LET key == bucket_key(albums[i], cluster_map, buckets)
       IN place_albums(albums, i + 1, cluster_map,
                       [buckets EXCEPT ![key].albums = Append(@, albums[i])])

\* line 178 with "other" first
ordered_bucket_keysMutant(included, buckets) ==
  LET in_buckets(c) == Some(c.cluster_id) \in DOMAIN buckets
      kept == SelectSeq(included, in_buckets)
  IN <<OtherKey>> \o [k \in 1..Len(kept) |-> Some(kept[k].cluster_id)]

\* line 178
ordered_bucket_keys(included, buckets) ==
  LET in_buckets(c) == Some(c.cluster_id) \in DOMAIN buckets
      kept == SelectSeq(included, in_buckets)
  IN Append([k \in 1..Len(kept) |-> Some(kept[k].cluster_id)], OtherKey)

\* lines 181-195 without the test of line 188
RECURSIVE result_loopMutant(_, _, _, _, _)
result_loopMutant(keys, i, buckets, result_buckets, hidden) ==
  IF i > Len(keys)
    THEN [result_buckets |-> result_buckets, hidden_zero_album_bucket_count |-> hidden]
  ELSE LET bucket == buckets[keys[i]]
           count == Len(bucket.albums)
       IN IF IsSet(bucket.cluster_id)
            THEN result_loopMutant(keys, i + 1, buckets,
                   Append(result_buckets,
                          [cluster_id |-> bucket.cluster_id, weight |-> bucket.weight,
                           weight_share |-> bucket.weight_share, albums |-> bucket.albums,
                           album_count |-> count, strength |-> Some(strength_label(count))]),
                   hidden)
          ELSE IF count = 0
            THEN result_loopMutant(keys, i + 1, buckets, result_buckets, hidden)
          ELSE result_loopMutant(keys, i + 1, buckets,
                 Append(result_buckets,
                        [cluster_id |-> bucket.cluster_id, weight |-> bucket.weight,
                         weight_share |-> bucket.weight_share, albums |-> bucket.albums,
                         album_count |-> count, strength |-> None]),
                 hidden)

\* lines 181-195, from key number i on
RECURSIVE result_loop(_, _, _, _, _)
result_loop(keys, i, buckets, result_buckets, hidden) ==
  IF i > Len(keys)
    THEN [result_buckets |-> result_buckets, hidden_zero_album_bucket_count |-> hidden]
  ELSE LET bucket == buckets[keys[i]]
           count == Len(bucket.albums)
       IN IF IsSet(bucket.cluster_id)
            THEN IF count = 0
                   THEN result_loop(keys, i + 1, buckets, result_buckets, hidden + 1)
                   ELSE result_loop(keys, i + 1, buckets,
                          Append(result_buckets,
                                 [cluster_id |-> bucket.cluster_id, weight |-> bucket.weight,
                                  weight_share |-> bucket.weight_share,
                                  albums |-> bucket.albums, album_count |-> count,
                                  strength |-> Some(strength_label(count))]),
                          hidden)
          ELSE IF count = 0
            THEN result_loop(keys, i + 1, buckets, result_buckets, hidden)
          ELSE result_loop(keys, i + 1, buckets,
                 Append(result_buckets,
                        [cluster_id |-> bucket.cluster_id, weight |-> bucket.weight,
                         weight_share |-> bucket.weight_share, albums |-> bucket.albums,
                         album_count |-> count, strength |-> None]),
                 hidden)

\* sum(len(b["albums"]) for b in result_buckets), lines 201 and 203
RECURSIVE album_total(_)
album_total(result_buckets) ==
  IF result_buckets = <<>> THEN 0
  ELSE Len(Head(result_buckets).albums) + album_total(Tail(result_buckets))

\* the report with the Other bucket counted among the displayed buckets
validation_reportMutant(result_buckets, hidden, included, albums) ==
  [bucket_count |-> Len(result_buckets),
   album_total |-> album_total(result_buckets),
   has_other |-> \E k \in 1..Len(result_buckets) : ~IsSet(result_buckets[k].cluster_id),
   ok |-> album_total(result_buckets) = Len(albums),
   included_cluster_count |-> Len(included),
   displayed_bucket_count |-> Len(result_buckets),
   hidden_zero_album_bucket_count |-> hidden]

\* lines 197-211 (the rounded shares and total_weight are left out)
validation_report(result_buckets, hidden, included, albums) ==
  [bucket_count |-> Len(result_buckets),
   album_total |-> album_total(result_buckets),
   has_other |-> \E k \in 1..Len(result_buckets) : ~IsSet(result_buckets[k].cluster_id),
   ok |-> album_total(result_buckets) = Len(albums),
   included_cluster_count |-> Len(included),
   displayed_bucket_count |->
     Cardinality({k \in 1..Len(result_buckets) : IsSet(result_buckets[k].cluster_id)}),
   hidden_zero_album_bucket_count |-> hidden]

\* lines 138-220: the answer of the profile for the included clusters
taste_buckets(included, albums, cluster_map, validate) ==
  LET buckets == place_albums(albums, 1, cluster_map, init_buckets(included))
      r == result_loop(ordered_bucket_keys(included, buckets), 1, buckets, <<>>, 0)
  IN [buckets |-> r.result_buckets,
      top_clusters |-> included,
      total_albums |-> Len(albums),
      validation |-> IF validate
                       THEN Some(validation_report(r.result_buckets,
                                   r.hidden_zero_album_bucket_count, included, albums))
                       ELSE None]

\* ------------------------------ get_album_recommendations_from_spotify
\* the synchronous pipeline (lines 200-257); call holds the request's locals
\* and, once pc = "returned", the status code and detail of the answer

\* POST /albums/from-spotify arrives
FromSpotifyRequest ==
  /\ call.fn = "none"
  /\ \E n \in 0..MaxArtists, sid \in {None} \cup {Some(x) : x \in SessionIds}, en \in BOOLEAN :
       call' = [fn |-> "from_spotify", pc |-> "check", artists |-> n, session_id |-> sid,
                enrich_spotify |-> en, seeds |-> <<>>, rows |-> <<>>, db |-> "none",
                query_calls |-> 0, enrich_calls |-> 0, code |-> 0, detail |-> None]
  /\ UNCHANGED <<manager, library>>

\* the request ends with this status code and detail
Respond(c, code, detail) == [c EXCEPT !.pc = "returned", !.code = code, !.detail = detail]

\* lines 213-214
from_spotify_check ==
  /\ call.fn = "from_spotify"
  /\ call.pc = "check"
  /\ call' = IF call.artists = 0
               THEN Respond(call, 400, Some(EmptyArtistsDetail))
               ELSE [call EXCEPT !.pc = "resolve"]
  /\ UNCHANGED <<manager, library>>

\* lines 218-239: resolve, dedup, and the test for an empty seed list
\* the endpoint once the resolver answered outs for its artists
FromSpotifyResolved(c, outs) ==
  LET r == resolve_mb_artists_from_spotify(ArtistNames(c.artists), outs)
      seeds == from_spotify_seeds_ordered(r.mb_numeric_ids)
  IN IF seeds = <<>>
       THEN Respond(c, 400, Some(NoSeedsDetail))
       ELSE [c EXCEPT !.pc = "query", !.seeds = seeds]

from_spotify_resolve ==
  /\ call.fn = "from_spotify"
  /\ call.pc = "resolve"
  /\ \E outs \in [1..call.artists -> LookupOutcomes] : call' = FromSpotifyResolved(call, outs)
  /\ UNCHANGED <<manager, library>>

\* lines 241-247: an HTTPException leaves the endpoint and becomes the answer
\* the endpoint once the oracle answered o
FromSpotifyQueried(call_, o) ==
  LET r == run_album_recs_query(o)
      c == [call_ EXCEPT !.query_calls = @ + 1, !.db = o.kind]
  IN IF r.raised
       THEN Respond(c, r.exc.status_code, Some(r.exc.detail))
       ELSE [c EXCEPT !.pc = "enrich", !.rows = r.rows]

from_spotify_query ==
  /\ call.fn = "from_spotify"
  /\ call.pc = "query"
  /\ \E o \in QueryOutcomes : call' = FromSpotifyQueried(call, o)
  /\ UNCHANGED <<manager, library>>

\* line 249 and the test of line 252
\* the endpoint once the enrichment returned, found telling the rows it matched
FromSpotifyEnriched(call_, found) ==
  LET c == [call_ EXCEPT !.enrich_calls = @ + 1,
                         !.rows = enrich_albums_with_spotify(
                                    call_.rows, call_.enrich_spotify, ENRICH_MAX_ITEMS, found)]
  IN IF IsSet(c.session_id)
       THEN [c EXCEPT !.pc = "session"]
       ELSE Respond(c, 200, None)

from_spotify_enrich ==
  /\ call.fn = "from_spotify"
  /\ call.pc = "enrich"
  /\ \E found \in [1..Len(call.rows) -> BOOLEAN] : call' = FromSpotifyEnriched(call, found)
  /\ UNCHANGED <<manager, library>>

\* lines 253-257
from_spotify_session ==
  /\ call.fn = "from_spotify"
  /\ call.pc = "session"
  /\ SESSIONS' = SessionWrite(SESSIONS, call.session_id[1], call.rows)
  /\ call' = Respond(call, 200, None)
  /\ UNCHANGED <<library, now, jobs, JOB_REGISTRY, JOB_LOCK, task, req, resp>>

FromSpotify ==
  \/ FromSpotifyRequest \/ from_spotify_check \/ from_spotify_resolve
  \/ from_spotify_query \/ from_spotify_enrich \/ from_spotify_session

\* one background job and one synchronous request, side by side
NextPipelines ==
  \/ CreateRequestWithCookie({1}) \/ create_check \/ cleanup_now \/ cleanup \/ store \/ add_task
  \/ Background(1)
  \/ FromSpotify

SpecPipelines == Init /\ [][NextPipelines]_vars

\* ------------------------------- the two pipelines on the same responses
\* The synchronous endpoint is called, then a job is created with the same
\* artists, cookie and enrich flag; responses holds what the resolver, the
\* oracle and the enrichment answer, to the endpoint and to the job alike.
\* The client polls the job while the clock advances.
InitEquiv ==
  /\ InitManager
  /\ InitLibrary
  /\ \E n \in 0..MaxArtists, sid \in {None} \cup {Some(x) : x \in SessionIds}, en \in BOOLEAN :
       \E outs \in [1..n -> LookupOutcomes], o \in QueryOutcomes :
         \E found \in [1..Len(o.rows) -> BOOLEAN] :
           call = [fn |-> "from_spotify", pc |-> "check", artists |-> n, session_id |-> sid,
                   enrich_spotify |-> en, seeds |-> <<>>, rows |-> <<>>, db |-> "none",
                   query_calls |-> 0, enrich_calls |-> 0, code |-> 0, detail |-> None,
                   responses |-> [outs |-> outs, o |-> o, found |-> found]]

\* get_album_recommendations_from_spotify, its collaborators answering responses
SyncSteps ==
  \/ from_spotify_check
  \/ /\ call.pc = "resolve"
     /\ call' = FromSpotifyResolved(call, call.responses.outs)
     /\ UNCHANGED <<manager, library>>
  \/ /\ call.pc = "query"
     /\ call' = FromSpotifyQueried(call, call.responses.o)
     /\ UNCHANGED <<manager, library>>
  \/ /\ call.pc = "enrich"
     /\ call' = FromSpotifyEnriched(call, call.responses.found)
     /\ UNCHANGED <<manager, library>>
  \/ from_spotify_session

\* POST /jobs with the arguments the endpoint was called with
SameCreateRequest ==
  /\ call.pc = "returned"
  /\ req.pc = "idle"
  /\ jobs = <<>>
  /\ resp.op # "create"
  /\ req' = [NoReq EXCEPT !.op = "create", !.pc = "create_check", !.artists = call.artists,
                          !.session_id = call.session_id,
                          !.enrich_spotify = call.enrich_spotify]
  /\ resp' = NoResp
  /\ UNCHANGED <<harness, now, jobs, JOB_REGISTRY, JOB_LOCK, SESSIONS, task>>

\* run_recs_job, its collaborators answering responses
SameJobSteps(j) ==
  \/ run_status(j) \/ run_updated_at(j) \/ run_progress(j)
  \/ update_progress(j) \/ update_progress_ts(j)
  \/ /\ task[j].pc = "call_resolve"
     /\ SetTask(j, Resolved(task[j], call.responses.outs))
     /\ UNCHANGED <<harness, now, jobs, JOB_REGISTRY, JOB_LOCK, SESSIONS, req, resp>>
  \/ /\ task[j].pc = "call_query"
     /\ SetTask(j, Queried(task[j], call.responses.o))
     /\ UNCHANGED <<harness, now, jobs, JOB_REGISTRY, JOB_LOCK, SESSIONS, req, resp>>
  \/ /\ task[j].pc = "call_enrich"
     /\ SetTask(j, Enriched(task[j], call.responses.found))
     /\ UNCHANGED <<harness, now, jobs, JOB_REGISTRY, JOB_LOCK, SESSIONS, req, resp>>
  \/ /\ task[j].pc = "session_write"
     /\ SESSIONS' = SessionWrite(SESSIONS, task[j].session_id[1], task[j].rows)
     /\ SetTask(j, [task[j] EXCEPT !.pc = "done_status"])
     /\ UNCHANGED <<harness, now, jobs, JOB_REGISTRY, JOB_LOCK, req, resp>>
  \/ done_status(j) \/ done_result(j) \/ done_progress(j) \/ done_ts(j)
  \/ err_status(j) \/ err_error(j) \/ err_progress(j) \/ err_ts(j)

NextEquiv ==
  \/ SyncSteps
  \/ SameCreateRequest \/ create_check \/ cleanup_now \/ cleanup \/ store \/ add_task
  \/ SameJobSteps(1)
  \/ (call.pc = "returned" /\ jobs # <<>> /\ (Tick \/ PollRequest({1})))
  \/ lookup \/ read_status \/ read_result \/ read_error \/ read_status_again
  \/ read_stage \/ read_counts \/ read_times

SpecEquiv == InitEquiv /\ [][NextEquiv]_vars

\* ------------------------------------------------ the enrichment on its own
\* Up to MaxCalls calls, one after the other; call is the latest one, with
\* the cache and the log as they were when it started.
AlbumNames == {n \in Names : Len(n) <= 1}
BatchArtists == {<<>>, <<"a">>, <<" ", "A">>}
BatchAlbums == {<<>>, <<"a">>}
BatchRows == {AlbumRow(a, b) : a \in BatchArtists, b \in BatchAlbums}
BatchLists == UNION {[1..n -> BatchRows] : n \in 0..MaxBatchRows}

InitEnrich ==
  /\ InitManager
  /\ InitLibrary
  /\ call = [fn |-> "loaded", n |-> 0]

\* enrich_album_from_spotify(artist_name, album_name)
EnrichAlbum ==
  /\ call.fn \in {"loaded", "enrich_album"}
  /\ call.n < MaxCalls
  /\ \E artist_name \in Names, album_name \in AlbumNames, out \in SearchOutcomes :
       LET r == enrich_album_from_spotify(artist_name, album_name, out,
                  [cache |-> album_enrichment_cache, log |-> lookup_log])
       IN /\ call' = [fn |-> "enrich_album", n |-> call.n + 1,
                      artist_name |-> artist_name, album_name |-> album_name,
                      raised |-> r.raised, value |-> r.value]
          /\ album_enrichment_cache' = r.cache
          /\ lookup_log' = r.log
  /\ UNCHANGED manager

\* enrich_albums_with_spotify(rows, enrich_spotify, max_items)
EnrichAlbums ==
  /\ call.fn \in {"loaded", "enrich_album"}
  /\ call.n < MaxCalls
  /\ \E rows \in BatchLists, enrich_spotify \in BOOLEAN, max_items \in 0..MaxBatchRows :
       \E outs \in [1..Len(rows) -> SearchOutcomes] :
         LET st == [cache |-> album_enrichment_cache, log |-> lookup_log]
             r == enrich_rows(rows, enrich_spotify, max_items, outs, st)
         IN /\ call' = [fn |-> "enrich_albums", n |-> call.n + 1,
                        rows |-> rows, enrich_spotify |-> enrich_spotify,
                        max_items |-> max_items, outs |-> outs, st |-> st,
                        raised |-> r.raised, result |-> [obj |-> r.obj, rows |-> r.rows]]
            /\ album_enrichment_cache' = r.cache
            /\ lookup_log' = r.log
  /\ UNCHANGED manager

SpecEnrich == InitEnrich /\ [][EnrichAlbum \/ EnrichAlbums]_vars

\* ----------------------------------- the inclusion walk of taste_profile
\* fetch_user_top_clusters answers in ORDER BY weight DESC: the lists are
\* non-increasing in weight; cluster i of a list has cluster_id i
ClusterWeights == (0..MaxWeight) \cup {10, 25, 60}
ClusterLists ==
  UNION {{[i \in 1..n |-> [cluster_id |-> i, weight |-> w[i]]] :
            w \in {v \in [1..n -> ClusterWeights] : \A i \in 1..(n - 1) : v[i] >= v[i + 1]}} :
         n \in 0..MaxClusters}

InitTaste ==
  /\ InitManager
  /\ InitLibrary
  /\ call \in {[fn |-> "taste_profile", pc |-> "clusters_fetched", all_clusters |-> cs,
                result |-> None] : cs \in ClusterLists}

\* lines 113-136
TasteInclude ==
  /\ call.fn = "taste_profile"
  /\ call.pc = "clusters_fetched"
  /\ call' = [call EXCEPT !.pc = "included",
                          !.result = Some(included_clusters(call.all_clusters))]
  /\ UNCHANGED <<manager, library>>

SpecTaste == InitTaste /\ [][TasteInclude]_vars

\* ------------------- the inclusion walk, in every order the query may answer
\* ORDER BY weight DESC (musicbrainz_db.py line 257) leaves rows of equal
\* weight in any order; taste_profile walks the rows as they come (line 124)
RowOrders(n) ==
  {p \in [1..n -> 1..n] : \A i, j \in 1..n : i # j => p[i] # p[j]}

ClusterOrders(lists) ==
  UNION {{[i \in 1..Len(cs) |-> cs[p[i]]] :
            p \in {q \in RowOrders(Len(cs)) :
                     \A i \in 1..(Len(cs) - 1) : cs[q[i]].weight >= cs[q[i + 1]].weight}} :
         cs \in lists}

InitTasteOrder ==
  /\ InitManager
  /\ InitLibrary
  /\ call \in {[fn |-> "taste_profile", pc |-> "clusters_fetched", all_clusters |-> cs,
                result |-> None] : cs \in ClusterOrders(ClusterLists)}

SpecTasteOrder == InitTasteOrder /\ [][TasteInclude]_vars

\* ------------------------------------ taste_profile from line 112 on
\* The albums are at hand (line 110); the clusters of the user, their walk
\* and the buckets follow. Weights are 0, 1 or 5, in short lists and in
\* lists of top_n clusters; an artist's primary cluster is one of the
\* first clusters of the user or one the user does not have.
ProfileWeights == {0, 1, 5}
ProfileClusterLists ==
  {cs \in ClusterLists :
     /\ Len(cs) <= MaxProfileClusters
     /\ \A i \in 1..Len(cs) : cs[i].weight \in ProfileWeights}
\* top_n clusters, all of weight 1 but for the first
WideClusterLists ==
  {[i \in 1..TOP_N |-> [cluster_id |-> i, weight |-> IF i = 1 THEN w ELSE 1]] :
     w \in ProfileWeights \ {0}}
TasteArtistIds == {None} \cup {Some(a) : a \in 1..MaxTasteArtists}
TasteAlbumLists ==
  UNION {{[k \in 1..n |-> TasteAlbum(k, ids[k])] : ids \in [1..n -> TasteArtistIds]} :
         n \in 0..MaxTasteAlbums}
  \cup {[k \in 1..n |-> TasteAlbum(k, Some(1))] : n \in 0..MaxSameArtistAlbums}
PrimaryClusterIds == 1..(MaxProfileClusters + 1)
\* fetch_artist_primary_clusters: a row for some of the artists asked for
ClusterMaps(artist_ids) == UNION {[S -> PrimaryClusterIds] : S \in SUBSET artist_ids}

InitBuckets ==
  /\ InitManager
  /\ InitLibrary
  /\ call \in {[fn |-> "taste_profile", pc |-> "albums", albums |-> albums,
                validate |-> validate, all_clusters |-> <<>>, result |-> None,
                cluster_map |-> <<>>, response |-> None, code |-> 0, detail |-> None] :
               albums \in TasteAlbumLists, validate \in BOOLEAN}

\* line 113
taste_fetch_clusters ==
  /\ call.fn = "taste_profile"
  /\ call.pc = "albums"
  /\ \E cs \in ProfileClusterLists \cup WideClusterLists :
       call' = [call EXCEPT !.pc = "clusters_fetched", !.all_clusters = cs]
  /\ UNCHANGED <<manager, library>>

\* lines 138-220; the 404 of lines 115, 119 and 136 ended the request before
taste_bucket ==
  /\ call.fn = "taste_profile"
  /\ call.pc = "included"
  /\ call.result[1].code = 200
  /\ \E cluster_map \in ClusterMaps(int_artist_ids(call.albums)) :
       call' = [call EXCEPT !.pc = "returned",
                            !.code = 200,
                            !.cluster_map = cluster_map,
                            !.response = Some(taste_buckets(call.result[1].included,
                                                call.albums, cluster_map, call.validate))]
  /\ UNCHANGED <<manager, library>>

SpecBuckets == InitBuckets /\ [][taste_fetch_clusters \/ TasteInclude \/ taste_bucket]_vars

\* ------------------------------------ taste_profile, the whole request
NotLoggedInDetail == "Not logged in (no session cookie)"
NoSpotifyDetail == "Not logged in with Spotify"
TopArtistsDetail == "Spotify top artists error"
SeedIngestionDetail == "Spotify seed ingestion failed"

\* line 79 with <= for <
needs_refreshMutant(albums) == Len(albums) <= DEFAULT_RECS

\* line 79
needs_refresh(albums) == Len(albums) < DEFAULT_RECS

\* a session as the login leaves it: spotify_user_id stands for the user id
\* and the access token, album_recs for the cached recommendations
TasteSession(album_recs, user) ==
  [mb_artist_mbids |-> <<>>, album_recs |-> album_recs, spotify_user_id |-> user]

\* the cached recommendations: none, or a list around DEFAULT_RECS rows
CachedLengths == {0, 1, DEFAULT_RECS - 1, DEFAULT_RECS, DEFAULT_RECS + 1}
CachedRecs ==
  {None} \cup {Some([k \in 1..n |-> TasteAlbum(k, Some(1))]) : n \in CachedLengths}

\* what get_spotify_top_artists does: it raises SpotifyAPIError, something
\* else raises (lines 82-87), or it answers n artists
TopArtistsOutcomes ==
  {[kind |-> "api_error", artists |-> 0], [kind |-> "error", artists |-> 0]}
  \cup {[kind |-> "items", artists |-> n] : n \in 0..MaxArtists}

\* the oracle's answers to the profile: no row, one, or one more than the
\* enrichment takes
TasteOracleLengths == {0, 1, TASTE_ENRICH_MAX_ITEMS + 1}
TasteQueryOutcomes ==
  {[kind |-> "conn_error", rows |-> <<>>], [kind |-> "query_error", rows |-> <<>>]}
  \cup {[kind |-> "rows", rows |-> [k \in 1..n |-> TasteAlbum(k, Some(1))]] :
          n \in TasteOracleLengths}

InitProfile ==
  /\ now = 0
  /\ jobs = <<>>
  /\ JOB_REGISTRY = {}
  /\ JOB_LOCK = 0
  /\ SESSIONS \in {<<>>} \cup {[sid \in SessionIds |-> TasteSession(recs, user)] :
                                recs \in CachedRecs, user \in {None, Some("u1")}}
  /\ task = [j \in JobIds |-> NoTask]
  /\ req = NoReq
  /\ resp = NoResp
  /\ InitLibrary
  /\ call = NoCall

\* GET /profile arrives
TasteRequest ==
  /\ call.fn = "none"
  /\ \E sid \in {None} \cup {Some(x) : x \in SessionIds}, validate \in BOOLEAN :
       call' = [fn |-> "taste_profile", pc |-> "session", session_id |-> sid,
                validate |-> validate, cached |-> <<>>, albums |-> <<>>, artists |-> 0,
                seeds |-> <<>>, resolve_calls |-> 0, query_calls |-> 0, enrich_calls |-> 0,
                max_items |-> 0, all_clusters |-> <<>>, result |-> None,
                cluster_map |-> <<>>, response |-> None, code |-> 0, detail |-> None]
  /\ UNCHANGED <<manager, library>>

\* lines 59-79: the session of the cookie, its cached rows, and the test
\* for fresh recommendations
taste_session ==
  /\ call.fn = "taste_profile"
  /\ call.pc = "session"
  /\ call' = IF ~IsSet(call.session_id) \/ call.session_id[1] \notin DOMAIN SESSIONS
               THEN Respond(call, 401, Some(NotLoggedInDetail))
             ELSE IF ~IsSet(SESSIONS[call.session_id[1]].spotify_user_id)
               THEN Respond(call, 401, Some(NoSpotifyDetail))
             ELSE LET session_store == SESSIONS[call.session_id[1]]
                      albums == IF IsSet(session_store.album_recs)
                                  THEN session_store.album_recs[1]
                                  ELSE <<>>
                  IN [call EXCEPT !.cached = albums, !.albums = albums,
                                  !.pc = IF needs_refresh(albums)
                                           THEN "top_artists" ELSE "albums"]
  /\ UNCHANGED <<manager, library>>

\* lines 81-87 and the except clauses of lines 90-93
taste_top_artists ==
  /\ call.fn = "taste_profile"
  /\ call.pc = "top_artists"
  /\ \E o \in TopArtistsOutcomes :
       call' = IF o.kind = "api_error" THEN Respond(call, 502, Some(TopArtistsDetail))
               ELSE IF o.kind = "error" THEN Respond(call, 502, Some(SeedIngestionDetail))
               ELSE [call EXCEPT !.pc = "resolve", !.artists = o.artists]
  /\ UNCHANGED <<manager, library>>

\* lines 88-96
taste_resolve ==
  /\ call.fn = "taste_profile"
  /\ call.pc = "resolve"
  /\ \E outs \in [1..call.artists -> LookupOutcomes] :
       LET r == resolve_mb_artists_from_spotify(ArtistNames(call.artists), outs)
           seeds == dedup_ordered(r.mb_numeric_ids)
           c == [call EXCEPT !.resolve_calls = @ + 1, !.seeds = seeds]
       IN call' = IF seeds = <<>>
                    THEN Respond(c, 400, Some(NoSeedsDetail))
                    ELSE [c EXCEPT !.pc = "query"]
  /\ UNCHANGED <<manager, library>>

\* lines 98-104
taste_query ==
  /\ call.fn = "taste_profile"
  /\ call.pc = "query"
  /\ \E o \in TasteQueryOutcomes :
       LET r == run_album_recs_query(o)
           c == [call EXCEPT !.query_calls = @ + 1]
       IN call' = IF r.raised
                    THEN Respond(c, r.exc.status_code, Some(r.exc.detail))
                    ELSE [c EXCEPT !.pc = "enrich", !.albums = r.rows]
  /\ UNCHANGED <<manager, library>>

\* line 106: every lookup finds its album, or none does
taste_enrich ==
  /\ call.fn = "taste_profile"
  /\ call.pc = "enrich"
  /\ \E hit \in BOOLEAN :
       call' = [call EXCEPT !.pc = "store",
                            !.enrich_calls = @ + 1,
                            !.max_items = TASTE_ENRICH_MAX_ITEMS,
                            !.albums = enrich_albums_with_spotify(
                                         call.albums, TRUE, TASTE_ENRICH_MAX_ITEMS,
                                         [k \in 1..Len(call.albums) |-> hit])]
  /\ UNCHANGED <<manager, library>>

\* lines 108-110
taste_store ==
  /\ call.fn = "taste_profile"
  /\ call.pc = "store"
  /\ SESSIONS' = SessionWrite(SESSIONS, call.session_id[1], call.albums)
  /\ call' = [call EXCEPT !.pc = "albums"]
  /\ UNCHANGED <<library, now, jobs, JOB_REGISTRY, JOB_LOCK, task, req, resp>>

NextProfile ==
  \/ TasteRequest \/ taste_session \/ taste_top_artists \/ taste_resolve \/ taste_query
  \/ taste_enrich \/ taste_store \/ taste_fetch_clusters \/ TasteInclude \/ taste_bucket

SpecProfile == InitProfile /\ [][NextProfile]_vars

\* ------------------------------------- search_spotify_albums_catalog
\* What the token endpoint does for one request: requests.post raises, it
\* answers a status >= 400, a body that is no JSON, a JSON body without
\* access_token, or a token
TokenResponses == {"network_error", "error_status", "no_json", "no_token", "token"}
\* What the search endpoint does: requests.get raises, it answers 401, 429,
\* another status >= 400, or 200 with a body that is no JSON, with no items
\* or with items
SearchResponses ==
  {"network_error", "401", "429", "error_status", "no_json", "no_items", "items"}
SearchItems == <<"album">>

\* get_spotify_app_access_token, spotify_client.py lines 253-300; cache:
\* the token of _app_token_cache, expired: its expires_at has passed
get_spotify_app_access_token(cache, expired, credentials, token_resp) ==
  IF IsSet(cache) /\ ~expired
    THEN [raised |-> FALSE, token |-> cache, cache |-> cache]
  ELSE IF ~credentials
    THEN [raised |-> FALSE, token |-> None, cache |-> cache]
  ELSE IF token_resp \in {"network_error", "error_status"}
    THEN [raised |-> FALSE, token |-> None, cache |-> cache]
  ELSE IF token_resp = "no_json"
    THEN \* line 287: resp.json() raises
         [raised |-> TRUE, token |-> None, cache |-> cache]
  ELSE IF token_resp = "no_token"
    THEN [raised |-> FALSE, token |-> None, cache |-> cache]
  ELSE [raised |-> FALSE, token |-> Some("token"), cache |-> Some("token")]

\* search_spotify_albums_catalog, lines 303-385; st: the token cache and
\* whether a back-off is set
search_spotify_albums_catalog(st, expired, credentials, token_resp, search_resp) ==
  LET t == get_spotify_app_access_token(st.cache, expired, credentials, token_resp)
      out(raised, items, cache, backoff) ==
        [raised |-> raised, items |-> items, cache |-> cache, backoff |-> backoff,
         searched |-> IsSet(t.token) /\ ~t.raised]
  IN IF t.raised THEN out(TRUE, <<>>, t.cache, st.backoff)
     ELSE IF ~IsSet(t.token) THEN out(FALSE, <<>>, t.cache, st.backoff)
     ELSE IF search_resp = "network_error" THEN out(FALSE, <<>>, t.cache, st.backoff)
     ELSE IF search_resp = "401" THEN out(FALSE, <<>>, None, st.backoff)
     ELSE IF search_resp = "429" THEN out(FALSE, <<>>, t.cache, TRUE)
     ELSE IF search_resp = "error_status" THEN out(FALSE, <<>>, t.cache, st.backoff)
     ELSE IF search_resp = "no_json"
       THEN \* line 382: resp.json() raises
            out(TRUE, <<>>, t.cache, st.backoff)
     ELSE IF search_resp = "no_items" THEN out(FALSE, <<>>, t.cache, st.backoff)
     ELSE out(FALSE, SearchItems, t.cache, st.backoff)

InitCatalog ==
  /\ InitManager
  /\ InitLibrary
  /\ call = [fn |-> "loaded", n |-> 0, cache |-> None, backoff |-> FALSE]

\* one call of search_spotify_albums_catalog, after the calls before it
CatalogSearch ==
  /\ call.fn \in {"loaded", "search_catalog"}
  /\ call.n < MaxCalls
  /\ \E expired \in BOOLEAN, credentials \in BOOLEAN,
        token_resp \in TokenResponses, search_resp \in SearchResponses :
       LET st == [cache |-> call.cache, backoff |-> call.backoff]
           r == search_spotify_albums_catalog(st, expired, credentials, token_resp,
                                              search_resp)
       IN call' = [fn |-> "search_catalog", n |-> call.n + 1, st |-> st,
                   expired |-> expired, credentials |-> credentials,
                   token_resp |-> token_resp, search_resp |-> search_resp,
                   raised |-> r.raised, items |-> r.items, searched |-> r.searched,
                   cache |-> r.cache, backoff |-> r.backoff]
  /\ UNCHANGED <<manager, library>>

SpecCatalog == InitCatalog /\ [][CatalogSearch]_vars

\* ------------------------------------------- musicbrainz_client._request
\* What one GET comes to: an SSLError, another RequestException, a 503 or a
\* 429, another error status, or a success status with or without a JSON body
MbResponses == {"ssl_error", "network_error", "503", "429", "404", "200", "200_no_json"}
\* the Retry-After header of a 503 or 429: absent, a number of seconds, or a date
RetryAfterHeaders == {"absent", "seconds", "date"}
RetryAfterSeconds == 5

\* _backoff_delay, lines 106-118, without the jitter below one second
backoff_delay(attempt) == IF 2 ^ attempt < 30 THEN 2 ^ attempt ELSE 30

\* the responses after which the loop continues, 500 among them
RetryableMutant(response) == response # "200"
\* lines 149-178 and 186: the responses after which the loop continues
Retryable(response) == response \in {"ssl_error", "network_error", "503", "429"}

\* lines 186-196: the sleep before the next attempt
RetryDelay(response, retry_after, attempt) ==
  IF response \in {"503", "429"} /\ retry_after = "seconds"
    THEN RetryAfterSeconds
    ELSE backoff_delay(attempt)

InitMbRequest ==
  /\ InitManager
  /\ InitLibrary
  /\ call = [fn |-> "mb_request", pc |-> "attempt", attempt |-> 1, log |-> <<>>,
             exc |-> None]

\* lines 142-214: one pass of the loop body up to its sleep, return or raise
mb_get ==
  /\ call.fn = "mb_request"
  /\ call.pc = "attempt"
  /\ \E response \in MbResponses, retry_after \in RetryAfterHeaders :
       LET delay == IF Retryable(response)
                      THEN RetryDelay(response, retry_after, call.attempt) ELSE 0
           entry == [response |-> response, delay |-> delay]
           log == Append(call.log, entry)
       IN /\ response \notin {"503", "429"} => retry_after = "absent"
          /\ call' =
               IF Retryable(response)
                 THEN [call EXCEPT !.pc = "sleep", !.log = log]
               ELSE IF response = "200"
                 THEN [call EXCEPT !.pc = "returned", !.log = log]
               ELSE IF response = "200_no_json"
                 THEN [call EXCEPT !.pc = "raised", !.log = log,
                                   !.exc = Some("RuntimeError")]
               ELSE [call EXCEPT !.pc = "raised", !.log = log, !.exc = Some("HTTPError")]
  /\ UNCHANGED <<manager, library>>

\* time.sleep(...) and continue: the next attempt, or line 217 after the last
mb_sleep ==
  /\ call.fn = "mb_request"
  /\ call.pc = "sleep"
  /\ call' = IF call.attempt < MB_MAX_RETRIES
               THEN [call EXCEPT !.pc = "attempt", !.attempt = call.attempt + 1]
               ELSE [call EXCEPT !.pc = "raised", !.exc = Some("RuntimeError")]
  /\ UNCHANGED <<manager, library>>

NextMbRequest == mb_get \/ mb_sleep
SpecMbRequest == InitMbRequest /\ [][NextMbRequest]_vars
\* every GET returns or raises (timeout=10) and every sleep ends
SpecMbRequestFair == SpecMbRequest /\ WF_vars(NextMbRequest)

\* ------------------------------ enrich_album_from_spotify, thread by thread
\* Jobs and requests run in worker threads and share the cache without a
\* lock. Each thread makes up to MaxCalls lookups; one lookup is the test of
\* line 66, the search of line 69 and the cache write of line 71, 76 or 103,
\* and other threads run in between.
Threads == 1..MaxThreads
RaceArtists == {<<"a">>, <<"A">>}
RaceAlbum == <<"a">>
IdleThread == [pc |-> "idle", n |-> 0, artist_name |-> <<>>, value |-> None]

InitCacheRace ==
  /\ InitManager
  /\ InitLibrary
  /\ call = [fn |-> "lookups", th |-> [t \in Threads |-> IdleThread]]

SetThread(t, thread) == call' = [call EXCEPT !.th[t] = thread]

\* enrich_album_from_spotify(artist_name, album_name) is called: line 65
lookup_call(t) ==
  /\ call.th[t].pc \in {"idle", "returned", "raised"}
  /\ call.th[t].n < MaxCalls
  /\ \E artist_name \in RaceArtists :
       SetThread(t, [pc |-> "check", n |-> call.th[t].n + 1,
                     artist_name |-> artist_name, value |-> None])
  /\ UNCHANGED <<manager, album_enrichment_cache, lookup_log>>

\* lines 66-67
lookup_check(t) ==
  LET th == call.th[t]
      key == normalize_key(th.artist_name, RaceAlbum)
  IN /\ th.pc = "check"
     /\ IF key \in DOMAIN album_enrichment_cache
          THEN /\ SetThread(t, [th EXCEPT !.pc = "returned",
                                          !.value = album_enrichment_cache[key]])
               /\ lookup_log' = Append(lookup_log, Lookup(th.artist_name, RaceAlbum, FALSE, FALSE))
          ELSE /\ SetThread(t, [th EXCEPT !.pc = "search"])
               /\ UNCHANGED lookup_log
     /\ UNCHANGED <<manager, album_enrichment_cache>>

\* lines 69-92: the search and the choice among its items, outside the cache
lookup_search(t) ==
  LET th == call.th[t]
  IN /\ th.pc = "search"
     /\ \E out \in SearchOutcomes :
          IF out = "raise"
            THEN /\ SetThread(t, [th EXCEPT !.pc = "raised"])
                 /\ lookup_log' = Append(lookup_log, Lookup(th.artist_name, RaceAlbum, TRUE, TRUE))
            ELSE /\ SetThread(t, [th EXCEPT !.pc = "store",
                                   !.value = IF out = "match"
                                               THEN Some(Payload(th.artist_name, RaceAlbum))
                                               ELSE None])
                 /\ UNCHANGED lookup_log
     /\ UNCHANGED <<manager, album_enrichment_cache>>

\* lines 71-72, 76-77 or 103-104: the cache is written, the value returned
lookup_store(t) ==
  LET th == call.th[t]
      key == normalize_key(th.artist_name, RaceAlbum)
  IN /\ th.pc = "store"
     /\ album_enrichment_cache' = CachePut(album_enrichment_cache, key, th.value)
     /\ lookup_log' = Append(lookup_log, Lookup(th.artist_name, RaceAlbum, TRUE, FALSE))
     /\ SetThread(t, [th EXCEPT !.pc = "returned"])
     /\ UNCHANGED manager

NextCacheRace ==
  \E t \in Threads : lookup_call(t) \/ lookup_check(t) \/ lookup_search(t) \/ lookup_store(t)

SpecCacheRace == InitCacheRace /\ [][NextCacheRace]_vars

\* --------------------------------------- _choose_latest_album on its own
\* the release dates of the catalog: none, the empty string, a year, a year
\* and a month, or a full date; 31 April is a string that is no date
ReleaseDates ==
  {None, Some(<<>>)}
  \cup {Some(<<y>>) : y \in FirstYear..LastYear}
  \cup {Some(<<LastYear, 4>>), Some(<<LastYear, 4, 2>>), Some(<<LastYear, 4, 31>>)}
Precisions == {None, Some("year"), Some("month"), Some("day")}
\* the items of a search result, from the date and precision of each place;
\* id is the place of the candidate
CandidateItems(f) ==
  [k \in DOMAIN f |-> [id |-> k, release_date |-> f[k][1],
                       release_date_precision |-> f[k][2]]]

InitChoose ==
  /\ InitManager
  /\ InitLibrary
  /\ \E n \in 0..MaxCandidates : \E f \in [1..n -> ReleaseDates \X Precisions] :
       call = [fn |-> "choose_latest_album", pc |-> "called",
               items |-> CandidateItems(f), result |-> None]

ChooseLatest ==
  /\ call.fn = "choose_latest_album"
  /\ call.pc = "called"
  /\ call' = [call EXCEPT !.pc = "returned",
                          !.result = Some(choose_latest_album(call.items))]
  /\ UNCHANGED <<manager, library>>

SpecChoose == InitChoose /\ [][ChooseLatest]_vars

\* ------------------------------- resolve_mb_artists_from_spotify on its own
ResolveCalls ==
  UNION {{[fn |-> "resolve", pc |-> "called", artists |-> ArtistNames(n), outs |-> outs,
           result |-> None] : outs \in [1..n -> LookupOutcomes]} :
         n \in 0..MaxResolveArtists}

InitResolve ==
  /\ InitManager
  /\ InitLibrary
  /\ call \in ResolveCalls

\* the call runs to its return statement (line 171)
Resolve ==
  /\ call.fn = "resolve"
  /\ call.pc = "called"
  /\ call' = [call EXCEPT !.pc = "returned",
                          !.result = Some(resolve_mb_artists_from_spotify(call.artists, call.outs))]
  /\ UNCHANGED <<manager, library>>

SpecResolve == InitResolve /\ [][Resolve]_vars

\* ---------------------------------------------------- the dedup on its own
DedupCalls ==
  UNION {{[fn |-> "dedup", pc |-> "called", items |-> x, job |-> None,
           from_spotify |-> None, taste |-> None] : x \in [1..n -> 1..MaxSeedId]} :
         n \in 0..MaxSeedLen}

InitDedup ==
  /\ InitManager
  /\ InitLibrary
  /\ call \in DedupCalls

\* the three copies are given the same resolver output
Dedup ==
  /\ call.fn = "dedup"
  /\ call.pc = "called"
  /\ call' = [call EXCEPT !.pc = "returned",
                          !.job = Some(seeds_ordered(call.items)),
                          !.from_spotify = Some(from_spotify_seeds_ordered(call.items)),
                          !.taste = Some(dedup_ordered(call.items))]
  /\ UNCHANGED <<manager, library>>

SpecDedup == InitDedup /\ [][Dedup]_vars

\* ------------------------------------------------------------------ claims
StatusSteps == {<<"queued", "running">>, <<"running", "done">>, <<"running", "error">>}

\* C1: a job's status changes only queued -> running, running -> done or
\* running -> error: done and error are never left, and no job goes from
\* queued straight to done or error.
C1_StatusStateMachine ==
  [][\A j \in DOMAIN jobs :
       jobs'[j].status # jobs[j].status
         => <<jobs[j].status, jobs'[j].status>> \in StatusSteps]_vars

\* a job whose task went through running and has ended it in done
C1_Witness ==
  \E j \in DOMAIN jobs : jobs[j].status = "done" /\ task[j].pc = "returned"

\* C2: run_recs_job never lets an exception out: whatever was raised inside
\* it, the task returns, and a job still registered then has status error and
\* the text of the exception as its error.
C2_NeverPropagates ==
  \A j \in DOMAIN jobs :
    /\ task[j].pc # "propagated"
    /\ (task[j].pc = "returned" /\ IsSet(task[j].exc) /\ j \in JOB_REGISTRY)
         => /\ jobs[j].status = "error"
            /\ jobs[j].error = Some(task[j].exc[1].detail)

\* an unexpected (non-HTTP) exception ended a job that is still registered
C2_Witness ==
  \E j \in JOB_REGISTRY :
    /\ task[j].pc = "returned"
    /\ IsSet(task[j].exc)
    /\ task[j].exc[1].type = "Exception"
    /\ jobs[j].status = "error"

\* the resolver has returned for job j (the task has announced a stage past
\* resolving_seeds) and no seed came out of it
ZeroSeeds(j) ==
  /\ task[j].stage \in {"resolved", "fetching_recs", "enriching_spotify"}
  /\ task[j].seeds = <<>>

C4_EmptyCreateRejected ==
  [][(req.op = "create" /\ req.artists = 0 /\ req' # req)
       => /\ req' = NoReq
          /\ resp'.op = "create" /\ resp'.code = 400
          /\ resp'.detail = Some(EmptyArtistsDetail)
          /\ JOB_REGISTRY' = JOB_REGISTRY
          /\ jobs' = jobs
          /\ task' = task]_vars

\* an empty create was rejected while a job sat in the registry
C4_Witness ==
  /\ resp.op = "create" /\ resp.code = 400
  /\ JOB_REGISTRY # {}

PollOps == {"status", "result"}

\* the positions of a poll after _get_job has found the job
ReadPcs == {"read_status", "read_result", "read_error", "read_status_again",
            "read_stage", "read_counts", "read_times"}

\* C5: get_result returns the result payload only when the job's status is
\* done; when the status is error it fails with the stored error message;
\* when the status is queued or running it answers 202 with the progress and
\* no result payload.
C5_GetResultByStatus ==
  (resp.op = "result" /\ resp.code # 404)
    => LET job == jobs[resp.job_id]
       IN /\ resp.code \in {200, 500, 202}
          /\ resp.code = 200 => job.status = "done"
          /\ resp.code = 500 => (job.status = "error" /\ resp.detail = job.error)
          /\ resp.code = 202 => (resp.result = None /\ IsSet(resp.stage))

\* C6: every get_status / get_result answer is a snapshot of one registry
\* state: an answer that saw status done also saw stage done and the result
\* payload, and an answer that saw status error also saw the error message.
C6_ConsistentSnapshot ==
  /\ (resp.op = "status" /\ resp.code = 200 /\ resp.status = Some("done"))
       => resp.stage = Some("done")
  /\ (resp.op = "status" /\ resp.code = 200 /\ resp.status = Some("error"))
       => (IsSet(resp.error) /\ resp.stage = Some("error"))
  /\ (resp.op = "result" /\ resp.code = 200) => IsSet(resp.result)
  /\ (resp.op = "result" /\ resp.code = 500) => resp.detail # Some(JobFailedDetail)

\* C7: get_status and get_result sweep before they look up: once the sweep
\* has run no job that was expired at the time it read is registered, so the
\* lookup finds only jobs that expire after that time and answers 404 for
\* the others, as it does for an id that was never created.
C7_SweepBeforeLookup ==
  /\ req.pc = "lookup"
       => \A j \in JOB_REGISTRY : jobs[j].expires_at > req.now
  /\ req.pc \in ReadPcs
       => (req.job_id \in DOMAIN jobs /\ jobs[req.job_id].expires_at > req.now)
  /\ (resp.op \in PollOps /\ resp.code # 404) => resp.job_id \in DOMAIN jobs
  /\ (resp.op \in PollOps /\ resp.code = 404) => resp.job_id \notin JOB_REGISTRY

\* a poll answered 404 for a job that had completed and was then swept
C7_Witness ==
  /\ resp.op \in PollOps /\ resp.code = 404
  /\ resp.job_id \in DOMAIN jobs
  /\ jobs[resp.job_id].status = "done"

\* C8: every mutation of a stored job sets expires_at to the time of the
\* mutation plus the TTL, so whenever no mutation is under way expires_at
\* equals updated_at plus TTL.
C8_ExpiresAtRefreshed ==
  JOB_LOCK = 0
    => \A j \in JOB_REGISTRY :
         jobs[j].expires_at = jobs[j].updated_at + JOB_TTL_MINUTES

\* C9: a job's result is set only if its status is done, its error only if
\* its status is error, and never both.
C9_ResultAndErrorByStatus ==
  \A j \in DOMAIN jobs :
    /\ IsSet(jobs[j].result) => jobs[j].status = "done"
    /\ IsSet(jobs[j].error) => jobs[j].status = "error"
    /\ ~(IsSet(jobs[j].result) /\ IsSet(jobs[j].error))

\* a registered job holds a result
C9_Witness ==
  \E j \in JOB_REGISTRY : IsSet(jobs[j].result) /\ task[j].pc = "returned"

StageOrder ==
  <<"queued", "resolving_seeds", "resolved", "fetching_recs", "enriching_spotify", "done">>

StageSteps ==
  {<<StageOrder[i], StageOrder[i + 1]>> : i \in 1..(Len(StageOrder) - 1)}
  \cup {<<StageOrder[i], "error">> : i \in 2..(Len(StageOrder) - 1)}

\* C10: the stage of a job moves only one step along queued,
\* resolving_seeds, resolved, fetching_recs, enriching_spotify, done, or from
\* a running stage to error; the oracle is called only once the resolver has
\* returned, and the enrichment only once the oracle has returned.
C10_StagesInOrder ==
  /\ [][\A j \in DOMAIN jobs :
          jobs'[j].progress.stage # jobs[j].progress.stage
            => <<jobs[j].progress.stage, jobs'[j].progress.stage>> \in StageSteps]_vars
  /\ [](\A j \in DOMAIN jobs :
          /\ (task[j].pc = "call_query" \/ task[j].query_calls > 0)
               => task[j].stage \in {"fetching_recs", "enriching_spotify"}
          /\ (task[j].pc = "call_enrich" \/ task[j].enrich_calls > 0)
               => (task[j].query_calls = 1 /\ task[j].stage = "enriching_spotify"))

\* a job went through every stage: both calls were made and the stage is done
C10_Witness ==
  \E j \in DOMAIN jobs :
    /\ jobs[j].progress.stage = "done"
    /\ task[j].query_calls = 1 /\ task[j].enrich_calls = 1
\* C11: once the sweep has removed a job's record, the registry never holds
\* that id again, and no step of the removed job's background task changes
\* any Job record (its own or another job's).
C11_EvictedStaysOut ==
  [][\A j \in DOMAIN jobs :
       j \notin JOB_REGISTRY =>
         /\ j \notin JOB_REGISTRY'
         /\ (task'[j] # task[j] => jobs' = jobs)]_vars

\* job 1 was evicted while running, its task has run to the end, and job 2
\* is in the registry
C11_Witness ==
  /\ Len(jobs) = 2
  /\ 1 \notin JOB_REGISTRY
  /\ 2 \in JOB_REGISTRY
  /\ jobs[1].status = "running"
  /\ task[1].pc = "returned"
  /\ task[1].stage = "enriching_spotify"
\* C12: resolve never raises, the resolved and the missed names together are
\* as many as the input artists, and an artist whose lookup raised is in
\* missed_names.
C12_ResolveCountsEveryArtist ==
  (call.fn = "resolve" /\ call.pc = "returned") =>
    LET r == call.result[1]
    IN /\ ~r.raised
       /\ Len(r.resolved_names) + Len(r.missed_names) = Len(call.artists)
       /\ \A i \in 1..Len(call.artists) :
            call.outs[i].lookup = "raise" =>
              \E k \in 1..Len(r.missed_names) : r.missed_names[k] = call.artists[i]

\* the artists of a call whose lookup returned a record with an integer id
Usable(o) == o.lookup = "found" /\ IsSet(o.internal_id)
UsableIndexes(outs) == SelectSeq([i \in 1..Len(outs) |-> i], LAMBDA i : Usable(outs[i]))
UpsertsSucceed(outs) == [i \in 1..Len(outs) |-> [outs[i] EXCEPT !.upsert = "ok"]]

\* C13: the ids and resolved names are those of the artists whose lookup
\* returned a record with an integer id, in input order and with duplicates
\* kept; a record without such an id puts the name in missed_names; a
\* failing genre upsert changes nothing of the result.
C13_ResolvedExactlyUsable ==
  (call.fn = "resolve" /\ call.pc = "returned") =>
    LET r == call.result[1]
        idx == UsableIndexes(call.outs)
    IN /\ r.mb_numeric_ids = [k \in 1..Len(idx) |-> call.outs[idx[k]].internal_id[1]]
       /\ r.resolved_names = [k \in 1..Len(idx) |-> call.artists[idx[k]]]
       /\ \A i \in 1..Len(call.artists) :
            (call.outs[i].lookup = "found" /\ ~IsSet(call.outs[i].internal_id)) =>
              \E k \in 1..Len(r.missed_names) : r.missed_names[k] = call.artists[i]
       /\ r = resolve_mb_artists_from_spotify(call.artists, UpsertsSucceed(call.outs))

\* two artists resolve to the same id, and the second one's upsert failed
C13_Witness ==
  /\ call.fn = "resolve"
  /\ call.pc = "returned"
  /\ Len(call.artists) = 2
  /\ call.outs[2].upsert = "raise"
  /\ call.result[1].mb_numeric_ids = <<1, 1>>
  /\ call.result[1].resolved_names = <<1, 2>>
\* the place of the first occurrence of v in the sequence x
FirstIndex(x, v) == CHOOSE k \in 1..Len(x) : x[k] = v /\ \A l \in 1..(k - 1) : x[l] # v

\* C14: the seeds have no duplicates, are exactly the distinct ids of the
\* resolver output, in first-occurrence order; the dedup is idempotent,
\* gives [3,1,2] for [3,1,3,2,1], and its three copies agree.
C14_SeedsDistinctInOrder ==
  (call.fn = "dedup" /\ call.pc = "returned") =>
    LET x == call.items
        d == call.job[1]
    IN /\ \A i, j \in 1..Len(d) : i # j => d[i] # d[j]
       /\ {d[i] : i \in 1..Len(d)} = {x[i] : i \in 1..Len(x)}
       /\ \A i, j \in 1..Len(d) : i < j => FirstIndex(x, d[i]) < FirstIndex(x, d[j])
       /\ seeds_ordered(d) = d
       /\ (x = <<3, 1, 3, 2, 1>> => d = <<3, 1, 2>>)
       /\ call.from_spotify[1] = d
       /\ call.taste[1] = d

C14_Witness ==
  /\ call.fn = "dedup"
  /\ call.pc = "returned"
  /\ call.items = <<3, 1, 3, 2, 1>>
  /\ call.job = Some(<<3, 1, 2>>)
  /\ call.taste = Some(<<3, 1, 2>>)
DbErrors == {"conn_error", "query_error"}
DbDetails == {DbConnDetail, DbQueryDetail}

\* C15: a pipeline invocation calls the ranking oracle at most once and only
\* with a non-empty seed list; after a connection or query failure there is
\* no second call and no enrichment, a background job still in the registry
\* ends in status error with the database error message, and the
\* synchronous request is answered with a 5xx status.
C15_OracleOnceAndFatal ==
  /\ \A j \in DOMAIN jobs :
       LET t == task[j]
       IN /\ t.query_calls <= 1
          /\ (t.pc = "call_query" \/ t.query_calls = 1) => t.seeds # <<>>
          /\ (IsSet(t.exc) /\ t.exc[1].detail \in DbDetails) =>
               /\ t.query_calls = 1
               /\ t.enrich_calls = 0
               /\ t.pc \in {"err_status", "err_error", "err_progress", "err_ts", "returned"}
               /\ (t.pc = "returned" /\ j \in JOB_REGISTRY) =>
                    /\ jobs[j].status = "error"
                    /\ jobs[j].error = Some(t.exc[1].detail)
  /\ call.fn = "from_spotify" =>
       /\ call.query_calls <= 1
       /\ (call.pc = "query" \/ call.query_calls = 1) => call.seeds # <<>>
       /\ call.db \in DbErrors =>
            /\ call.query_calls = 1
            /\ call.enrich_calls = 0
            /\ call.pc = "returned"
            /\ call.code \in 500..599
            /\ call.detail \in {Some(d) : d \in DbDetails}

\* the connection failed for the job and the query failed for the request
C15_Witness ==
  /\ Len(jobs) = 1
  /\ task[1].pc = "returned"
  /\ task[1].exc = Some(HTTPException(500, DbConnDetail))
  /\ jobs[1].status = "error"
  /\ jobs[1].error = Some(DbConnDetail)
  /\ call.fn = "from_spotify"
  /\ call.db = "query_error"
  /\ call.code = 500
  /\ call.detail = Some(DbQueryDetail)
\* the lookups made by the latest call of enrich_albums_with_spotify
LookupsOfCall == Len(lookup_log) - Len(call.st.log)

\* C16: enrich with enabled=False, or with an empty row list, returns the
\* list it was given with every row unchanged, makes no lookup (hence no
\* catalog search) and leaves the cache as it was.
C16_DisabledIsIdentity ==
  (call.fn = "enrich_albums" /\ (~call.enrich_spotify \/ call.rows = <<>>)) =>
    /\ ~call.raised
    /\ call.result.obj = "rows"
    /\ call.result.rows = call.rows
    /\ lookup_log = call.st.log
    /\ album_enrichment_cache = call.st.cache

\* disabled, with a row that a lookup would match and a cache that is not empty
C16_Witness ==
  /\ call.fn = "enrich_albums"
  /\ ~call.enrich_spotify
  /\ call.max_items = 1
  /\ call.rows = <<AlbumRow(<<"a">>, <<"a">>)>>
  /\ call.outs = <<"match">>
  /\ call.result.rows = call.rows
  /\ DOMAIN album_enrichment_cache # {}

\* C17: one call of enrich makes at most min(max_items, len(rows)) lookups,
\* and every row beyond the cap comes back as it was.
C17_CapRespected ==
  call.fn = "enrich_albums" =>
    /\ LookupsOfCall <= IF call.max_items <= Len(call.rows) THEN call.max_items
                          ELSE Len(call.rows)
    /\ Len(call.result.rows) = Len(call.rows)
    /\ \A idx \in 1..Len(call.rows) :
         idx > call.max_items => call.result.rows[idx] = call.rows[idx]

\* two rows that would both match, cap 1: the first is enriched, the second not
C17_Witness ==
  /\ call.fn = "enrich_albums"
  /\ call.enrich_spotify
  /\ call.max_items = 1
  /\ Len(call.rows) = 2
  /\ call.outs = <<"match", "match">>
  /\ call.st.cache = <<>>
  /\ IsSet(call.result.rows[1].spotify)
  /\ call.result.rows[2] = AlbumRow(<<" ", "A">>, <<"a">>)
  /\ LookupsOfCall = 1

\* a name without its case and its surrounding blanks
Fold(s) ==
  LET left == CHOOSE i \in 1..(Len(s) + 1) :
                /\ \A k \in 1..(i - 1) : s[k] = " "
                /\ (i <= Len(s) => s[i] # " ")
      right == CHOOSE j \in 0..Len(s) :
                 /\ \A k \in (j + 1)..Len(s) : s[k] = " "
                 /\ (j >= 1 => s[j] # " ")
  IN [k \in 1..(IF right >= left THEN right - left + 1 ELSE 0) |->
        IF s[left + k - 1] \in {"a", "A"} THEN "a" ELSE s[left + k - 1]]
SameAlbum(x, y) ==
  /\ Fold(x.artist_name) = Fold(y.artist_name)
  /\ Fold(x.album_name) = Fold(y.album_name)

WithoutFailing(rows, outs) ==
  [i \in 1..Len(rows) |-> IF outs[i] = "raise" THEN AlbumRow(<<>>, <<>>) ELSE rows[i]]

\* C19: a lookup that raises never ends the batch: enrich returns normally,
\* and every other row comes back as it would from the same call made
\* without the failing rows.
C19_FailureDoesNotAbort ==
  call.fn = "enrich_albums" =>
    /\ ~call.raised
    /\ LET alone == enrich_rows(WithoutFailing(call.rows, call.outs), call.enrich_spotify,
                                call.max_items, call.outs, call.st)
       IN \A i \in 1..Len(call.rows) :
            call.outs[i] # "raise" => call.result.rows[i] = alone.rows[i]

\* the first row's lookup raised, the second row was enriched
C19_Witness ==
  /\ call.fn = "enrich_albums"
  /\ call.enrich_spotify
  /\ call.max_items = 2
  /\ Len(call.rows) = 2
  /\ call.outs = <<"raise", "match">>
  /\ LookupsOfCall = 2
  /\ lookup_log[Len(lookup_log) - 1].raised
  /\ ~IsSet(call.result.rows[1].spotify)
  /\ IsSet(call.result.rows[2].spotify)
\* the weight of the clusters of the set S (positions in the list cs)
RECURSIVE WeightOf(_, _)
WeightOf(cs, S) ==
  IF S = {} THEN 0
  ELSE LET i == CHOOSE k \in S : TRUE IN cs[i].weight + WeightOf(cs, S \ {i})

\* C20: with share = weight / total_weight, a cluster is included exactly when
\* its share is at least 0.03 and the shares of the clusters included before
\* it sum to less than 0.85; for the weights 60, 25, 10, 5 the included
\* clusters are 1 and 2 and the cumulative share is 0.85.
C20_InclusionWalk ==
  (call.fn = "taste_profile" /\ call.pc = "included"
     /\ total_weight(call.all_clusters) > 0) =>
    LET cs == call.all_clusters
        total == total_weight(cs)
        r == call.result[1]
        S == {c.cluster_id : c \in {r.included[k] : k \in 1..Len(r.included)}}
    IN /\ \A i \in 1..Len(cs) :
            i \in S <=>
              /\ 100 * cs[i].weight >= 3 * total
              /\ 100 * WeightOf(cs, {j \in S : j < i}) < 85 * total
       /\ ([i \in 1..Len(cs) |-> cs[i].weight] = <<60, 25, 10, 5>> =>
             /\ [k \in 1..Len(r.included) |-> r.included[k].cluster_id] = <<1, 2>>
             /\ r.cum_share = CUM_SHARE_TARGET)

\* the cluster ids of a list of clusters, in order
ClusterIds(cs) == [k \in 1..Len(cs) |-> cs[k].cluster_id]

\* the same entries by weight descending, equal weights by cluster_id ascending
SortedClusters(cs) ==
  CHOOSE s \in {[i \in 1..Len(cs) |-> cs[p[i]]] : p \in RowOrders(Len(cs))} :
    \A i \in 1..(Len(cs) - 1) :
      \/ s[i].weight > s[i + 1].weight
      \/ s[i].weight = s[i + 1].weight /\ s[i].cluster_id < s[i + 1].cluster_id

\* C21: whatever the order in which the cluster entries arrive, the included
\* clusters are those of the walk by weight descending with equal weights
\* taken by cluster_id ascending, in that order.
C21_OrderIndependent ==
  (call.fn = "taste_profile" /\ call.pc = "included") =>
    ClusterIds(call.result[1].included)
      = ClusterIds(included_clusters(SortedClusters(call.all_clusters)).included)

\* the profile has answered with buckets
ProfileReturned == call.fn = "taste_profile" /\ call.pc = "returned"

\* the places <<bucket, position>> of the answer that hold the album
PlacesOf(album, buckets) ==
  {<<b, i>> \in (1..Len(buckets)) \X (1..MaxSameArtistAlbums) :
     i <= Len(buckets[b].albums) /\ buckets[b].albums[i] = album}

\* the bucket the album belongs to: its artist's primary cluster when that is
\* an included cluster, else Other (None)
ExpectedBucket(album, cluster_map, included) ==
  IF /\ IsSet(album.artist_id)
     /\ album.artist_id[1] \in DOMAIN cluster_map
     /\ \E k \in 1..Len(included) :
          included[k].cluster_id = cluster_map[album.artist_id[1]]
    THEN Some(cluster_map[album.artist_id[1]])
    ELSE None

\* the sum of album_count over the buckets
RECURSIVE SumAlbumCount(_)
SumAlbumCount(buckets) ==
  IF buckets = <<>> THEN 0 ELSE Head(buckets).album_count + SumAlbumCount(Tail(buckets))

\* C22: every input album is in exactly one bucket of the answer, that of its
\* artist's primary cluster when the cluster is included and Other otherwise;
\* the album counts add up to the number of albums and the validation
\* report, when asked for, says ok.
C22_EveryAlbumInOneBucket ==
  ProfileReturned =>
    LET r == call.response[1]
        included == call.result[1].included
    IN /\ \A k \in 1..Len(call.albums) :
            /\ Cardinality(PlacesOf(call.albums[k], r.buckets)) = 1
            /\ \A pl \in PlacesOf(call.albums[k], r.buckets) :
                 r.buckets[pl[1]].cluster_id
                   = ExpectedBucket(call.albums[k], call.cluster_map, included)
       /\ SumAlbumCount(r.buckets) = Len(call.albums)
       /\ (call.validate => r.validation[1].ok)

\* an answer with validation where one album is in its cluster's bucket, one
\* is in Other because its artist's cluster is not included, and one is in
\* Other because its artist_id is not an int
C22_Witness ==
  /\ ProfileReturned
  /\ call.validate
  /\ LET r == call.response[1]
         included == call.result[1].included
     IN /\ \E k \in 1..Len(call.albums) :
             IsSet(ExpectedBucket(call.albums[k], call.cluster_map, included))
        /\ \E k \in 1..Len(call.albums) :
             /\ IsSet(call.albums[k].artist_id)
             /\ call.albums[k].artist_id[1] \in DOMAIN call.cluster_map
             /\ ~IsSet(ExpectedBucket(call.albums[k], call.cluster_map, included))
        /\ \E k \in 1..Len(call.albums) : ~IsSet(call.albums[k].artist_id)
        /\ Len(r.buckets) = 2

\* C23: a bucket of a cluster is Strong from 20 albums on, Moderate from 10
\* to 19 and Weak up to 9; the Other bucket carries no strength.
C23_StrengthLabels ==
  ProfileReturned =>
    LET buckets == call.response[1].buckets
    IN \A b \in 1..Len(buckets) :
         IF IsSet(buckets[b].cluster_id)
           THEN /\ buckets[b].album_count >= 20 => buckets[b].strength = Some("Strong")
                /\ (buckets[b].album_count >= 10 /\ buckets[b].album_count <= 19)
                     => buckets[b].strength = Some("Moderate")
                /\ buckets[b].album_count <= 9 => buckets[b].strength = Some("Weak")
           ELSE buckets[b].strength = None

\* the documented boundary: a cluster bucket of exactly 20 albums
C23_Witness ==
  /\ ProfileReturned
  /\ \E b \in 1..Len(call.response[1].buckets) :
       /\ IsSet(call.response[1].buckets[b].cluster_id)
       /\ call.response[1].buckets[b].album_count = 20
       /\ call.response[1].buckets[b].strength = Some("Strong")

\* the included clusters (positions in included) that get no album
EmptyIncluded(albums, cluster_map, included) ==
  {k \in 1..Len(included) :
     \A a \in 1..Len(albums) :
       ExpectedBucket(albums[a], cluster_map, included) # Some(included[k].cluster_id)}

\* C24: no bucket of the answer has album_count 0: an included cluster
\* without albums has no bucket and is counted as hidden, and there is no
\* Other bucket when no album goes to Other.
C24_NoEmptyBucket ==
  ProfileReturned =>
    LET r == call.response[1]
        included == call.result[1].included
        empty == EmptyIncluded(call.albums, call.cluster_map, included)
    IN /\ \A b \in 1..Len(r.buckets) :
            r.buckets[b].album_count > 0 /\ r.buckets[b].album_count = Len(r.buckets[b].albums)
       /\ \A k \in empty :
            \A b \in 1..Len(r.buckets) : r.buckets[b].cluster_id # Some(included[k].cluster_id)
       /\ (call.validate =>
             r.validation[1].hidden_zero_album_bucket_count = Cardinality(empty))
       /\ ((\A a \in 1..Len(call.albums) :
              IsSet(ExpectedBucket(call.albums[a], call.cluster_map, included)))
             => \A b \in 1..Len(r.buckets) : IsSet(r.buckets[b].cluster_id))

\* an answer with a bucket, a hidden included cluster and no Other bucket
C24_Witness ==
  /\ ProfileReturned
  /\ call.validate
  /\ call.response[1].validation[1].hidden_zero_album_bucket_count >= 1
  /\ Len(call.response[1].buckets) >= 1
  /\ \A b \in 1..Len(call.response[1].buckets) : IsSet(call.response[1].buckets[b].cluster_id)

\* the place of a cluster id in the list of included clusters
IncludedIndex(included, cluster_id) ==
  CHOOSE k \in 1..Len(included) : included[k].cluster_id = cluster_id

\* C25: the buckets of clusters come in the order of the included clusters
\* (weight descending), the Other bucket comes last, and no cluster id has
\* two buckets.
C25_BucketOrder ==
  ProfileReturned =>
    LET buckets == call.response[1].buckets
        included == call.result[1].included
    IN /\ \A b1, b2 \in 1..Len(buckets) :
            (b1 < b2 /\ IsSet(buckets[b1].cluster_id) /\ IsSet(buckets[b2].cluster_id)) =>
              /\ IncludedIndex(included, buckets[b1].cluster_id[1])
                   < IncludedIndex(included, buckets[b2].cluster_id[1])
              /\ buckets[b1].weight[1] >= buckets[b2].weight[1]
              /\ buckets[b1].cluster_id # buckets[b2].cluster_id
       /\ \A b \in 1..Len(buckets) : ~IsSet(buckets[b].cluster_id) => b = Len(buckets)

\* two buckets of clusters of different weight, then the Other bucket
C25_Witness ==
  /\ ProfileReturned
  /\ LET buckets == call.response[1].buckets
     IN /\ Len(buckets) = 3
        /\ IsSet(buckets[1].cluster_id)
        /\ IsSet(buckets[2].cluster_id)
        /\ buckets[1].weight[1] > buckets[2].weight[1]
        /\ ~IsSet(buckets[3].cluster_id)

\* the walk of the clusters has been done in a request for the profile
ClustersWalked ==
  call.fn = "taste_profile" /\ call.pc \in {"included", "returned"} /\ IsSet(call.result)

PastFreshnessTest ==
  /\ call.fn = "taste_profile"
  /\ call.pc # "session"
  /\ ~(call.pc = "returned" /\ call.code = 401)

\* the request is at line 112 or beyond: the bucketing has begun
AtBucketing ==
  \/ call.pc \in {"albums", "clusters_fetched", "included"}
  \/ (call.pc = "returned" /\ call.code = 200)

LockedPcs == {"run_updated_at", "run_progress", "update_progress_ts", "done_result",
              "done_progress", "done_ts", "err_error", "err_progress", "err_ts"}
ExternalPcs == {"call_resolve", "call_query", "call_enrich", "session_write"}
\* where a request or a background task is about to take the lock
RequestLockPcs == {"cleanup", "store", "lookup"}
TaskLockPcs == {"scheduled", "update_progress", "done_status", "err_status"}

\* C28: a background task holds the registry lock only inside its locked
\* blocks, never during the resolver, the oracle or the enrichment; whoever
\* waits for the lock (create, a poll, another job's update) finds it free
\* or held by a task that can go on to release it.
C28_LockScope ==
  /\ \A j \in JobIds :
       /\ JOB_LOCK = j <=> task[j].pc \in LockedPcs
       /\ task[j].pc \in ExternalPcs => JOB_LOCK # j
  /\ JOB_LOCK # 0 => ENABLED Background(JOB_LOCK)
  /\ (req.pc \in RequestLockPcs /\ JOB_LOCK = 0) => ENABLED (cleanup \/ store \/ lookup)
  /\ \A j \in JobIds :
       (task[j].pc \in TaskLockPcs /\ JOB_LOCK = 0) => ENABLED Background(j)

\* job 1 waits for the oracle; meanwhile a poll has answered its status
\* with the stage of that call, and job 2 is in a progress update
C28_Witness ==
  /\ task[1].pc = "call_query"
  /\ resp.op = "status"
  /\ resp.job_id = 1
  /\ resp.code = 200
  /\ resp.stage = Some("fetching_recs")
  /\ JOB_LOCK = 2
  /\ task[2].pc = "update_progress_ts"

\* job j has been created
Created(j) == j <= Len(jobs)
\* job j has ended, or its record is gone
Ended(j) == Created(j) /\ (jobs[j].status \in {"done", "error"} \/ j \notin JOB_REGISTRY)

\* C29: under fair scheduling every created job ends in done or error, or
\* its record is evicted; a record of a job that has not ended leaves the
\* registry only by the sweep of expired jobs.
C29_JobsEnd ==
  /\ \A j \in JobIds : Created(j) ~> Ended(j)
  /\ [][\A j \in JobIds :
          (Created(j) /\ ~Ended(j)) =>
            \/ ~Ended(j)'
            \/ jobs'[j].status \in {"done", "error"}
            \/ (req.pc = "cleanup" /\ IsExpired(jobs[j], req.now))]_vars

\* job 1 was evicted while it ran and its task has returned; job 2 is done
C29_Witness ==
  /\ Len(jobs) = 2
  /\ 1 \notin JOB_REGISTRY
  /\ jobs[1].status = "running"
  /\ task[1].pc = "returned"
  /\ jobs[2].status = "done"

\* the parsed release date of a candidate (None: missing or unparseable)
ParsedDate(item) == coerce_release_date(item.release_date, item.release_date_precision)
\* the places of the candidates whose date parses
Parseable(items) == {k \in 1..Len(items) : IsSet(ParsedDate(items[k]))}

\* C30: with a parseable date among the candidates, the chosen one is the
\* first candidate carrying the latest parsed date; without any, it is the
\* first candidate (and none for an empty list).
C30_LatestParseableDate ==
  (call.fn = "choose_latest_album" /\ call.pc = "returned") =>
    LET items == call.items
        r == call.result[1]
        P == Parseable(items)
    IN IF P # {}
         THEN LET latest == {k \in P : \A l \in P :
                               ~date_gt(ParsedDate(items[l])[1], ParsedDate(items[k])[1])}
                  first == CHOOSE k \in latest : \A l \in latest : k <= l
              IN r.best_item = Some(items[first]) /\ r.best_date = ParsedDate(items[first])
         ELSE /\ r.best_date = None
              /\ r.best_item = IF items = <<>> THEN None ELSE Some(items[1])

\* an undated candidate first, then two candidates with the same latest
\* date: the second candidate is chosen
C30_Witness ==
  /\ call.fn = "choose_latest_album"
  /\ call.pc = "returned"
  /\ Len(call.items) = 3
  /\ Parseable(call.items) = {2, 3}
  /\ ParsedDate(call.items[2]) = ParsedDate(call.items[3])
  /\ call.result[1].best_item = Some(call.items[2])

\* the cache entry of a row after the call: the match found for it, if any
MatchOf(row) ==
  LET key == normalize_key(strip(row.artist_name), strip(row.release_group_name))
  IN IF key \in DOMAIN album_enrichment_cache THEN album_enrichment_cache[key] ELSE None

\* C31: enrich returns as many rows in the same order; a row differs from
\* the row given only in its spotify_* fields, and only when it has both
\* names and a match was found for it, whose payload the fields then are.
C31_RowsPreserved ==
  call.fn = "enrich_albums" =>
    /\ call.result.obj = "rows"
    /\ Len(call.result.rows) = Len(call.rows)
    /\ \A i \in 1..Len(call.rows) :
         LET before == call.rows[i]
             after == call.result.rows[i]
         IN /\ after.artist_name = before.artist_name
            /\ after.release_group_name = before.release_group_name
            /\ after # before =>
                 /\ strip(before.artist_name) # <<>>
                 /\ strip(before.release_group_name) # <<>>
                 /\ IsSet(MatchOf(before))
                 /\ after = [before EXCEPT !.spotify = MatchOf(before)]

\* a row without an album title and a matched row: only the second one is
\* changed, although the search would have matched for both
C31_Witness ==
  /\ call.fn = "enrich_albums"
  /\ call.enrich_spotify
  /\ call.max_items = 2
  /\ call.outs = <<"match", "match">>
  /\ call.st.cache = <<>>
  /\ call.rows = <<AlbumRow(<<"a">>, <<>>), AlbumRow(<<" ", "A">>, <<"a">>)>>
  /\ call.result.rows[1] = call.rows[1]
  /\ call.result.rows[2] = [call.rows[2] EXCEPT !.spotify = Some(Payload(<<"A">>, <<"a">>))]

\* C32: once the cache holds a matched payload for a key, no step of any
\* concurrent lookup replaces it with a negative (no-match) entry.
C32_MatchNeverReplaced ==
  [][\A key \in DOMAIN album_enrichment_cache :
       IsSet(album_enrichment_cache[key]) =>
         /\ key \in DOMAIN album_enrichment_cache'
         /\ IsSet(album_enrichment_cache'[key])]_vars

\* C33: the catalog search never raises to its caller, and returns the
\* empty list for every failure of the token fetch or of the search request.
C33_SearchNeverRaises ==
  call.fn = "search_catalog" =>
    /\ ~call.raised
    /\ (~call.searched \/ call.search_resp \notin {"no_items", "items"}) => call.items = <<>>

MbEnded == call.pc \in {"returned", "raised"}
\* what holds of every call of _request, whatever a success status without
\* a JSON body leads to
MbAttempts ==
  /\ call.attempt <= MB_MAX_RETRIES
  /\ Len(call.log) <= MB_MAX_RETRIES
  /\ Len(call.log) \in {call.attempt - 1, call.attempt}
  /\ \A k \in 1..(Len(call.log) - 1) :
       call.log[k].response \in {"ssl_error", "network_error", "503", "429"}
  /\ \A k \in 1..Len(call.log) :
       call.log[k].response \in {"ssl_error", "network_error", "503", "429"} =>
         /\ call.log[k].delay > 0
         /\ (call.pc = "raised" /\ k = Len(call.log)) =>
              (k = MB_MAX_RETRIES /\ call.exc = Some("RuntimeError"))
         /\ ~(call.pc = "returned" /\ k = Len(call.log))
  /\ MbEnded =>
       /\ call.log # <<>>
       /\ call.log[Len(call.log)].response = "404" =>
            (call.pc = "raised" /\ call.exc = Some("HTTPError"))
       /\ call.log[Len(call.log)].response = "200" => call.pc = "returned"

PollStep == req.op \in {"status", "result"} /\ req' # req

\* C35: no step of get_status or get_result changes a field of any job, a
\* session or a task; the only change to the registry is the sweep's removal
\* of records whose expires_at has passed.
C35_PollingReadOnly ==
  [][PollStep =>
       /\ jobs' = jobs
       /\ task' = task
       /\ SESSIONS' = SESSIONS
       /\ JOB_REGISTRY' \subseteq JOB_REGISTRY
       /\ \A j \in JOB_REGISTRY \ JOB_REGISTRY' :
            req.pc = "cleanup" /\ jobs[j].expires_at <= now]_vars

\* a running job was polled after the clock advanced; its record is as the
\* task left it
C35_Witness ==
  /\ resp.op = "status"
  /\ resp.code = 200
  /\ resp.job_id = 1
  /\ req.pc = "idle"
  /\ 1 \in JOB_REGISTRY
  /\ jobs[1].status = "running"
  /\ now > jobs[1].updated_at
  /\ jobs[1].expires_at < now + JOB_TTL_MINUTES

\* the sweep of lines 307-310 is taken by the request being served
SweepStep == req.pc = "cleanup" /\ req' # req

\* C36: right after a sweep taken at time now the registry holds no job
\* with expires_at <= now, and every job with expires_at > now that was in
\* the registry before is still there, unchanged.
C36_SweepExact ==
  [][SweepStep =>
       /\ \A j \in JOB_REGISTRY' : jobs'[j].expires_at > req.now
       /\ \A j \in JOB_REGISTRY :
            jobs[j].expires_at > req.now => (j \in JOB_REGISTRY' /\ jobs'[j] = jobs[j])
       /\ JOB_REGISTRY' \subseteq JOB_REGISTRY]_vars

\* a sweep has just removed the expired first job and kept the second one
C36_Witness ==
  /\ req.pc \in {"store", "lookup"}
  /\ Len(jobs) = 2
  /\ 1 \notin JOB_REGISTRY
  /\ 2 \in JOB_REGISTRY
  /\ jobs[1].expires_at <= req.now
  /\ jobs[2].expires_at > req.now

\* the job's task has returned, after the endpoint did
JobTaskEnded == Len(jobs) = 1 /\ task[1].pc = "returned" /\ call.pc = "returned"
\* the create request was refused as the endpoint refused its call
SameRefusal ==
  (resp.op = "create" /\ resp.code = 400) =>
    (call.code = 400 /\ call.detail = resp.detail /\ jobs = <<>>)

\* C37 as stated: for the same artists, parameters and responses the job
\* ends in done with the rows the endpoint returned, and in error exactly
\* when the endpoint raised, with the same message.
C37_PipelinesEquivalent ==
  /\ SameRefusal
  /\ JobTaskEnded =>
       IF call.code = 200
         THEN jobs[1].status = "done" /\ jobs[1].result = Some(call.rows)
         ELSE jobs[1].status = "error" /\ jobs[1].error = call.detail

\* C37 amended: the same, for a job whose record is not evicted before its
\* task ends; a job evicted on the way stays queued or running.
C37_EquivalentUnlessEvicted ==
  /\ SameRefusal
  /\ JobTaskEnded =>
       /\ jobs[1].status = "done" => (call.code = 200 /\ jobs[1].result = Some(call.rows))
       /\ jobs[1].status = "error" => (call.code # 200 /\ jobs[1].error = call.detail)
       /\ jobs[1].status \in {"queued", "running"} => 1 \notin JOB_REGISTRY
       /\ 1 \in JOB_REGISTRY =>
            IF call.code = 200 THEN jobs[1].status = "done" ELSE jobs[1].status = "error"

\* the endpoint returned an enriched row and wrote it to the session; the
\* job, still in the registry, is done with the same row
C37_Witness ==
  /\ JobTaskEnded
  /\ 1 \in JOB_REGISTRY
  /\ call.code = 200
  /\ Len(call.rows) = 1
  /\ call.rows[1].spotify
  /\ IsSet(call.session_id)
  /\ jobs[1].status = "done"
  /\ jobs[1].result = Some(call.rows)

\* the album set cached for session sid, None while the session has none
AlbumSet(sid) == IF sid \in DOMAIN SESSIONS THEN SESSIONS[sid].album_recs ELSE None
\* the places of run_recs_job after line 414
AfterSessionWrite == {"done_status", "done_result", "done_progress", "done_ts", "returned"}

\* C38: a session's album set is written only by a job created with that
\* session id whose enrichment call has returned; a job in error has left
\* every album set as it was; a job with a session id that is done with its
\* result has that result as the session's album set.
C38_SessionWriteAfterEnrichment ==
  /\ \A sid \in SessionIds :
       IsSet(AlbumSet(sid)) =>
         /\ task[1].session_id = Some(sid)
         /\ task[1].enrich_calls = 1
         /\ task[1].pc \in AfterSessionWrite
         /\ AlbumSet(sid) = Some(task[1].rows)
  /\ (Len(jobs) = 1 /\ (jobs[1].status = "error" \/ IsSet(task[1].exc))) =>
       \A sid \in SessionIds : AlbumSet(sid) = None
  /\ (Len(jobs) = 1 /\ jobs[1].status = "done" /\ IsSet(jobs[1].result)
        /\ IsSet(task[1].session_id)) =>
       AlbumSet(task[1].session_id[1]) = jobs[1].result

\* a job created with a session id is done with one enriched row, which is
\* the session's album set
C38_Witness ==
  /\ Len(jobs) = 1
  /\ jobs[1].status = "done"
  /\ IsSet(task[1].session_id)
  /\ IsSet(jobs[1].result)
  /\ Len(jobs[1].result[1]) = 1
  /\ jobs[1].result[1][1].spotify
  /\ AlbumSet(task[1].session_id[1]) = jobs[1].result

\* C39: in the validation report the number of included clusters is the
\* number of displayed buckets other than Other plus the number of hidden
\* empty buckets, and top_clusters is the list of the included clusters,
\* those without a displayed bucket among them.
C39_IncludedCountBalance ==
  (ProfileReturned /\ call.validate) =>
    LET r == call.response[1]
        v == r.validation[1]
        included == call.result[1].included
        displayed == {b \in 1..Len(r.buckets) : IsSet(r.buckets[b].cluster_id)}
    IN /\ v.included_cluster_count = v.displayed_bucket_count + v.hidden_zero_album_bucket_count
       /\ v.included_cluster_count = Len(included)
       /\ v.displayed_bucket_count = Cardinality(displayed)
       /\ r.top_clusters = included
       /\ \A k \in EmptyIncluded(call.albums, call.cluster_map, included) :
            \E t \in 1..Len(r.top_clusters) : r.top_clusters[t] = included[k]

\* a validated answer with a displayed cluster bucket, a hidden included
\* cluster and the Other bucket
C39_Witness ==
  /\ ProfileReturned
  /\ call.validate
  /\ LET r == call.response[1]
     IN /\ r.validation[1].hidden_zero_album_bucket_count >= 1
        /\ r.validation[1].displayed_bucket_count >= 1
        /\ r.validation[1].has_other
        /\ Len(r.top_clusters) > r.validation[1].displayed_bucket_count
====
